---- MODULE Spec2Model ----
(***************************************************************************)
(* Engagement subsystem of the blog service: per-post view/like counters   *)
(* (POST /blogs/:slug/stats) and the two-level comment threads.            *)
(*                                                                         *)
(* The repository ships two entry files that register the stats route:     *)
(*   src/index.js          findOneAndUpdate with $inc + $addToSet/$pull    *)
(*                         (the first registered handler answers every     *)
(*                         request, the second one is never reached)       *)
(*   src/unnamed/part_000  findOne, then updateOne built from the document *)
(*                         that was read, then findOne again               *)
(* The comment routes exist in src/unnamed/part_000 only.                  *)
(*                                                                         *)
(* Every request is an independent task; each await on the store is one    *)
(* atomic step of the store, and the steps of different requests           *)
(* interleave freely.                                                      *)
(***************************************************************************)
EXTENDS Integers, Sequences, FiniteSets, TLC

VARIABLES
    variant,    \* which entry file is deployed: "index" or "part_000"
    blogs,      \* collection clients_info: sequence of documents
    comments,   \* collection comments: sequence of documents, _id = position
    now,        \* the value new Date() returns
    req,        \* the requests: req[r] is the task handling request r
    cachedClient,       \* index.js / part_000: the cached MongoClient, 0 = null
    cachedDb,           \* index.js / part_000: the cached Db (its client), 0 = null
    clients,            \* the MongoClients constructed so far, by their state
    isConnected,        \* server.js: the flag the routes test
    clientsCollection,  \* server.js: the collection handle, or NoCollection
    connectionError     \* server.js: the message of the startup failure

vars == <<variant, blogs, comments, now, req, cachedClient, cachedDb, clients,
          isConnected, clientsCollection, connectionError>>

\* the globals of the process
globals == <<cachedClient, cachedDb, clients,
             isConnected, clientsCollection, connectionError>>

NoCollection == "undefined"     \* let clientsCollection;
NoError == "null"               \* let connectionError = null;

\* the process after its first connectToDatabase() succeeded: every handler
\* that follows takes the cached pair and leaves the globals alone
Cached ==
    /\ cachedClient = 1
    /\ cachedDb = 1
    /\ clients = <<"connected">>

\* the globals of src/server.js as declared, in a process that runs
\* another entry file
NotServer ==
    /\ isConnected = FALSE
    /\ clientsCollection = NoCollection
    /\ connectionError = NoError

------------------------------------------------------------------------------
(* Bounds *)

MaxReqs == 3        \* requests handled in one run of the stats model
MaxCommentReqs == 2 \* requests handled in one run of the comments model
MaxClock == 2       \* last value the clock takes

Reqs == 1..MaxReqs
CommentReqs == 1..MaxCommentReqs

Users == {"u1", "u2"}
NoUser == ""                          \* a missing / empty identity
NoDate == 0                           \* lastViewed: null
NoDoc == [missing |-> TRUE]           \* findOne found nothing

------------------------------------------------------------------------------
(* Arrays *)

Includes(arr, x) == \E i \in 1..Len(arr) : arr[i] = x

Distinct(arr) == {arr[i] : i \in 1..Len(arr)}

RECURSIVE Pull(_, _)
Pull(arr, x) ==
    IF arr = <<>> THEN <<>>
    ELSE IF Head(arr) = x THEN Pull(Tail(arr), x)
         ELSE <<Head(arr)>> \o Pull(Tail(arr), x)

AddToSet(arr, x) == IF Includes(arr, x) THEN arr ELSE Append(arr, x)

------------------------------------------------------------------------------
(* Blog documents *)

\* POST /postblogs: the engagement fields of a new blog
NewBlog(slug) ==
    [slug |-> slug, likes |-> 0, views |-> 0, hasLikedBy |-> TRUE,
     likedBy |-> <<>>, lastViewed |-> NoDate]

\* a document written before the engagement fields existed
LegacyBlog(slug) ==
    [slug |-> slug, likes |-> 0, views |-> 0, hasLikedBy |-> FALSE,
     likedBy |-> <<>>, lastViewed |-> NoDate]

\* collection.findOne({slug}): the first matching document, or nothing
FindBlogIndex(slug) ==
    IF \E i \in 1..Len(blogs) : blogs[i].slug = slug
    THEN CHOOSE i \in 1..Len(blogs) :
            /\ blogs[i].slug = slug
            /\ \A j \in 1..(i - 1) : blogs[j].slug # slug
    ELSE 0

FindBlog(slug) ==
    IF FindBlogIndex(slug) = 0 THEN NoDoc ELSE blogs[FindBlogIndex(slug)]

------------------------------------------------------------------------------
(* Update documents of the stats route.  likedByOp is one of                *)
(* "none", "push", "pull", "addToSet", "set"; likedByArg is the array that  *)
(* is set, or the one-element array of the identity pushed/pulled/added.    *)

EmptyUpdate ==
    [incLikes |-> 0, incViews |-> 0, likedByOp |-> "none",
     likedByArg |-> <<>>, setLastViewed |-> FALSE]

\* Object.keys(updateQuery).length === 0
IsEmptyUpdate(q) == q = EmptyUpdate

\* the store's atomic application of one update document to one blog;
\* date is the new Date() the handler put into $set.lastViewed
ApplyLikedBy(doc, q) ==
    CASE q.likedByOp = "none"     -> doc.likedBy
      [] q.likedByOp = "set"      -> q.likedByArg
      [] q.likedByOp = "push"     -> Append(doc.likedBy, q.likedByArg[1])
      [] q.likedByOp = "addToSet" -> AddToSet(doc.likedBy, q.likedByArg[1])
      [] q.likedByOp = "pull"     -> Pull(doc.likedBy, q.likedByArg[1])

ApplyBlogUpdate(doc, q, date) ==
    [doc EXCEPT
        !.likes = @ + q.incLikes,
        !.views = @ + q.incViews,
        !.likedBy = ApplyLikedBy(doc, q),
        !.hasLikedBy = IF q.likedByOp \in {"set", "push", "addToSet"}
                       THEN TRUE ELSE @,
        !.lastViewed = IF q.setLastViewed THEN date ELSE @]

------------------------------------------------------------------------------
(* src/index.js, first registered handler: the update document is built    *)
(* from the request alone.                                                 *)

\* a view counted by both registered handlers
IndexViewUpdateTwice ==
    [EmptyUpdate EXCEPT !.incViews = 2, !.setLastViewed = TRUE]

IndexViewUpdate ==
    [EmptyUpdate EXCEPT !.incViews = 1, !.setLastViewed = TRUE]

IndexLikeUpdate(u) ==
    [EmptyUpdate EXCEPT !.incLikes = 1, !.likedByOp = "addToSet",
                        !.likedByArg = <<u>>]

IndexUnlikeUpdate(u) ==
    [EmptyUpdate EXCEPT !.incLikes = -1, !.likedByOp = "pull",
                        !.likedByArg = <<u>>]

IndexUpdateQuery(action, u) ==
    CASE action = "view"   -> IndexViewUpdate
      [] action = "like"   -> IndexLikeUpdate(u)
      [] action = "unlike" -> IndexUnlikeUpdate(u)

------------------------------------------------------------------------------
(* src/unnamed/part_000: the update document is built from the blog that   *)
(* findOne returned.                                                       *)

\* blog.likedBy || []
LikedByOrEmpty(blog) == IF blog.hasLikedBy THEN blog.likedBy ELSE <<>>

\* blog.likedBy ? blog.likedBy.includes(userIdentifier) : false
BlogIsLiked(blog, u) == blog.hasLikedBy /\ Includes(blog.likedBy, u)

PartViewUpdate(blog) ==
    [EmptyUpdate EXCEPT !.incViews = 1, !.setLastViewed = TRUE,
                        !.likedByOp = "set",
                        !.likedByArg = LikedByOrEmpty(blog)]

PartLikeUpdate(blog, u) ==
    IF ~blog.hasLikedBy
    THEN [EmptyUpdate EXCEPT !.incLikes = 1, !.likedByOp = "set",
                             !.likedByArg = <<u>>]
    ELSE IF ~Includes(blog.likedBy, u)
    THEN [EmptyUpdate EXCEPT !.incLikes = 1, !.likedByOp = "push",
                             !.likedByArg = <<u>>]
    ELSE EmptyUpdate

PartUnlikeUpdate(blog, u) ==
    IF blog.hasLikedBy /\ Includes(blog.likedBy, u)
    THEN [EmptyUpdate EXCEPT !.incLikes = -1, !.likedByOp = "pull",
                             !.likedByArg = <<u>>]
    ELSE EmptyUpdate

PartUpdateQuery(blog, action, u) ==
    CASE action = "view"   -> PartViewUpdate(blog)
      [] action = "like"   -> PartLikeUpdate(blog, u)
      [] action = "unlike" -> PartUnlikeUpdate(blog, u)

\* the local isLiked after the switch
PartIsLiked(blog, action, u) ==
    CASE action = "like" /\ ~IsEmptyUpdate(PartLikeUpdate(blog, u))     -> TRUE
      [] action = "unlike" /\ ~IsEmptyUpdate(PartUnlikeUpdate(blog, u)) -> FALSE
      [] OTHER -> BlogIsLiked(blog, u)

------------------------------------------------------------------------------
(* Requests *)

Idle == [kind |-> "none", pc |-> "idle"]

NoData == [none |-> TRUE]

\* requests are taken in slot order (the slots are interchangeable)
CanStart(r) ==
    /\ req[r].pc = "idle"
    /\ \A q \in DOMAIN req : q < r => req[q].pc # "idle"

\* the request bodies tried: every like/unlike by a user and the views on the
\* stored blog, and the requests that are refused (no action, unknown
\* action, like/unlike without identity, unknown slug)
StatsInputs ==
    [slug : {"foo"}, action : {"like", "unlike"}, userIdentifier : Users]
    \cup [slug : {"foo"}, action : {"view"}, userIdentifier : {NoUser}]
    \cup [slug : {"foo"}, action : {"", "share"}, userIdentifier : {"u1"}]
    \cup [slug : {"foo"}, action : {"like"}, userIdentifier : {NoUser}]
    \cup [slug : {"bar"}, action : {"view"}, userIdentifier : {"u1"}]

StatsRequest(slug, action, u) ==
    [kind |-> "stats", pc |-> "start", slug |-> slug, action |-> action,
     userIdentifier |-> u, updateQuery |-> EmptyUpdate, isLiked |-> FALSE,
     date |-> NoDate, status |-> 0, data |-> NoData]

Respond(rq, status, data) ==
    [rq EXCEPT !.pc = "done", !.status = status, !.data = data]

StatsData(likes, views, isLiked) ==
    [likes |-> likes, views |-> views, isLiked |-> isLiked]

\* an identity check that lets every request through
NeedsIdentityNever(action, u) == FALSE

\* like / unlike without an identity
NeedsIdentity(action, u) == action \in {"like", "unlike"} /\ u = NoUser

\* the clock that new Date() reads advances between steps
Tick ==
    /\ now < MaxClock
    /\ now' = now + 1
    /\ UNCHANGED <<globals, variant, blogs, comments, req>>

------------------------------------------------------------------------------
(* POST /blogs/:slug/stats, src/index.js (first registered handler)        *)

\* up to the await of findOneAndUpdate: validation and the update document
IndexStatsReceive(r, slug, action, u) ==
    /\ variant = "index"
    /\ CanStart(r)
    /\ LET rq == StatsRequest(slug, action, u) IN
       req' = [req EXCEPT ![r] =
            IF action = "" THEN Respond(rq, 400, NoData)
            ELSE IF action \notin {"view", "like", "unlike"}
                 THEN Respond(rq, 400, NoData)
            ELSE IF NeedsIdentity(action, u) THEN Respond(rq, 400, NoData)
            ELSE [rq EXCEPT !.pc = "findOneAndUpdate",
                            !.updateQuery = IndexUpdateQuery(action, u),
                            !.date = now]]
    /\ UNCHANGED <<globals, variant, blogs, comments, now>>

\* findOneAndUpdate({slug}, updateQuery, {returnDocument: 'after'}) and the
\* response built from result.value, the document after the update
IndexStatsFindOneAndUpdate(r) ==
    /\ variant = "index"
    /\ req[r].kind = "stats"
    /\ req[r].pc = "findOneAndUpdate"
    /\ LET i == FindBlogIndex(req[r].slug) IN
       IF i = 0
       THEN /\ req' = [req EXCEPT ![r] = Respond(@, 404, NoData)]
            /\ UNCHANGED blogs
       ELSE LET updatedBlog ==
                    ApplyBlogUpdate(blogs[i], req[r].updateQuery, req[r].date) IN
            /\ blogs' = [blogs EXCEPT ![i] = updatedBlog]
            /\ req' = [req EXCEPT ![r] =
                 Respond(@, 200,
                    StatsData(updatedBlog.likes, updatedBlog.views,
                              BlogIsLiked(updatedBlog, req[r].userIdentifier)))]
    /\ UNCHANGED <<globals, variant, comments, now>>

------------------------------------------------------------------------------
(* POST /blogs/:slug/stats, src/unnamed/part_000                           *)

\* up to the await of findOne
PartStatsReceive(r, slug, action, u) ==
    /\ variant = "part_000"
    /\ CanStart(r)
    /\ LET rq == StatsRequest(slug, action, u) IN
       req' = [req EXCEPT ![r] =
            IF action = "" THEN Respond(rq, 400, NoData)
            ELSE [rq EXCEPT !.pc = "findOne"]]
    /\ UNCHANGED <<globals, variant, blogs, comments, now>>

\* findOne({slug}), the switch, and the "No update needed" answer
PartStatsFindOne(r) ==
    /\ variant = "part_000"
    /\ req[r].kind = "stats"
    /\ req[r].pc = "findOne"
    /\ LET blog == FindBlog(req[r].slug)
           action == req[r].action
           u == req[r].userIdentifier
       IN req' = [req EXCEPT ![r] =
            IF blog = NoDoc THEN Respond(@, 404, NoData)
            ELSE IF action \notin {"view", "like", "unlike"}
                 THEN Respond(@, 400, NoData)
            ELSE IF NeedsIdentity(action, u) THEN Respond(@, 400, NoData)
            ELSE IF IsEmptyUpdate(PartUpdateQuery(blog, action, u))
                 THEN Respond(@, 200,
                        StatsData(blog.likes, blog.views, BlogIsLiked(blog, u)))
            ELSE [@ EXCEPT !.pc = "updateOne",
                           !.updateQuery = PartUpdateQuery(blog, action, u),
                           !.isLiked = PartIsLiked(blog, action, u),
                           !.date = now]]
    /\ UNCHANGED <<globals, variant, blogs, comments, now>>

\* updateOne({slug}, updateQuery)
PartStatsUpdateOne(r) ==
    /\ variant = "part_000"
    /\ req[r].kind = "stats"
    /\ req[r].pc = "updateOne"
    /\ LET i == FindBlogIndex(req[r].slug) IN
       blogs' = IF i = 0 THEN blogs
                ELSE [blogs EXCEPT ![i] =
                        ApplyBlogUpdate(@, req[r].updateQuery, req[r].date)]
    /\ req' = [req EXCEPT ![r].pc = "refetch"]
    /\ UNCHANGED <<globals, variant, comments, now>>

\* the second findOne({slug}) and the response
PartStatsRefetch(r) ==
    /\ variant = "part_000"
    /\ req[r].kind = "stats"
    /\ req[r].pc = "refetch"
    /\ LET updatedBlog == FindBlog(req[r].slug) IN
       req' = [req EXCEPT ![r] =
            IF updatedBlog = NoDoc THEN Respond(@, 500, NoData)
            ELSE Respond(@, 200,
                    StatsData(updatedBlog.likes, updatedBlog.views,
                              req[r].isLiked))]
    /\ UNCHANGED <<globals, variant, blogs, comments, now>>

------------------------------------------------------------------------------
(* The stats model: any interleaving of stats requests on a stored blog,   *)
(* created by POST /postblogs or older than the engagement fields.  The    *)
(* stats route never reads a date back, so the clock stands still here.    *)

Init ==
    /\ variant \in {"index", "part_000"}
    /\ blogs \in {<<NewBlog("foo")>>, <<LegacyBlog("foo")>>}
    /\ comments = <<>>
    /\ now = 1
    /\ req = [r \in Reqs |-> Idle]
    /\ Cached
    /\ NotServer

Next ==
    \/ \E r \in Reqs, in \in StatsInputs :
            \/ IndexStatsReceive(r, in.slug, in.action, in.userIdentifier)
            \/ PartStatsReceive(r, in.slug, in.action, in.userIdentifier)
    \/ \E r \in Reqs :
            \/ IndexStatsFindOneAndUpdate(r)
            \/ PartStatsFindOne(r)
            \/ PartStatsUpdateOne(r)
            \/ PartStatsRefetch(r)

Spec == Init /\ [][Next]_vars

------------------------------------------------------------------------------
(* Properties of the stats route *)

StatsOf(r) == req[r].kind = "stats"

\* how often x occurs in an array
RECURSIVE Count(_, _)
Count(arr, x) ==
    IF arr = <<>> THEN 0
    ELSE (IF Head(arr) = x THEN 1 ELSE 0) + Count(Tail(arr), x)

\* request r is a stats request with this body on this slug
IsStats(r, slug, action) ==
    /\ StatsOf(r)
    /\ req[r].slug = slug
    /\ req[r].action = action

\* the update of request r has been applied by the store
Committed(r) ==
    /\ StatsOf(r)
    /\ \/ req[r].pc = "refetch"
       \/ /\ req[r].pc = "done"
          /\ req[r].status = 200
          /\ ~IsEmptyUpdate(req[r].updateQuery)

\* C1: for every post, in every reachable state, the number of distinct
\* identities in likedBy equals likes.
C1_LikedByMatchesLikes ==
    \A i \in 1..Len(blogs) :
        Cardinality(Distinct(blogs[i].likedBy)) = blogs[i].likes

\* C2: two like requests for the same post from the same identity u that
\* are in flight together, on a post u had not liked and that no other
\* request touched: once both updates are applied (neither request is
\* answered yet) u is in likedBy exactly once and likes has grown by
\* exactly 1 (from the 0 the post starts with).
C2_ConcurrentLikesCountOnce ==
    \A r, q \in DOMAIN req : \A u \in Users :
        ( /\ r # q
          /\ IsStats(r, "foo", "like") /\ req[r].userIdentifier = u
          /\ IsStats(q, "foo", "like") /\ req[q].userIdentifier = u
          /\ req[r].pc = "refetch" /\ req[q].pc = "refetch"
          /\ \A o \in DOMAIN req \ {r, q} : req[o].pc = "idle" )
        => /\ Count(FindBlog("foo").likedBy, u) = 1
           /\ FindBlog("foo").likes = 1

\* C4: views of the stored post is its starting value (0) plus the number
\* of view requests whose update has been applied, whatever like / unlike
\* requests ran in between; so after N view requests have completed it has
\* grown by exactly N.
C4_ViewsCountEveryView ==
    FindBlog("foo").views =
        Cardinality({r \in DOMAIN req : IsStats(r, "foo", "view") /\ Committed(r)})

\* C4 witness: two view requests and a like request in flight together,
\* all three applied and none answered yet.
C4_Witness ==
    \E r, q, l \in DOMAIN req :
        /\ r # q
        /\ IsStats(r, "foo", "view") /\ req[r].pc = "refetch"
        /\ IsStats(q, "foo", "view") /\ req[q].pc = "refetch"
        /\ IsStats(l, "foo", "like") /\ req[l].pc = "refetch"
        /\ FindBlog("foo").views = 2

\* the step in which the store applies the update of view request r
ViewWrites(r) ==
    /\ IsStats(r, "foo", "view")
    /\ req[r].pc \in {"updateOne", "findOneAndUpdate"}
    /\ req'[r].pc # req[r].pc

\* C5: the write of a view request leaves likes and likedBy of the post
\* as they were in the store just before the write.
C5_ViewKeepsLikes ==
    [][\A r \in DOMAIN req :
         ViewWrites(r) =>
            /\ FindBlog("foo")'.likes = FindBlog("foo").likes
            /\ LikedByOrEmpty(FindBlog("foo"))' = LikedByOrEmpty(FindBlog("foo"))]_vars

------------------------------------------------------------------------------
(* Text.  A string is a sequence of characters; " " is white space.        *)

Placeholder == <<"This comment has been deleted.">>

RECURSIVE TrimStart(_)
TrimStart(str) ==
    IF str # <<>> /\ Head(str) = " " THEN TrimStart(Tail(str)) ELSE str

RECURSIVE TrimEnd(_)
TrimEnd(str) ==
    IF str # <<>> /\ str[Len(str)] = " "
    THEN TrimEnd(SubSeq(str, 1, Len(str) - 1)) ELSE str

\* String.prototype.trim
Trim(str) == TrimEnd(TrimStart(str))

\* a content check that does not trim
IsBlankUntrimmed(str) == str = <<>>

\* !content || !content.trim()
IsBlank(str) == str = <<>> \/ Trim(str) = <<>>

------------------------------------------------------------------------------
(* Identifiers.  The _id of a comment is its position in the collection.   *)
(* An id string of a request is 24 hex digits in lower case (what          *)
(* _id.toString() yields), the same digits in upper case, or malformed.    *)

NoParent == [hex |-> 0, upper |-> FALSE]        \* parentId: null
Malformed == [hex |-> -1, upper |-> FALSE]      \* not 24 hex digits

\* _id.toString(): lower-case hex
IdToString(k) == [hex |-> k, upper |-> FALSE]

UpperCase(k) == [hex |-> k, upper |-> TRUE]

\* new ObjectId(str) throws on a malformed string
ObjectIdThrows(str) == str.hex < 0

\* new ObjectId(str): hex digits are read in either case
ObjectId(str) == str.hex

------------------------------------------------------------------------------
(* Comment documents *)

\* a new comment that starts liked by its author
NewCommentLiked(slug, content, parentId, authorName, authorEmail, u, date) ==
    [blogSlug |-> slug,
     content |-> Trim(content),
     parentId |-> parentId,
     author |-> [name |-> Trim(authorName), email |-> Trim(authorEmail)],
     likes |-> 1,
     likedBy |-> <<u>>,
     isEdited |-> FALSE,
     isDeleted |-> FALSE,
     createdAt |-> date,
     updatedAt |-> date,
     userIdentifier |-> u]

\* the newComment of POST /blogs/:slug/comments
NewComment(slug, content, parentId, authorName, authorEmail, u, date) ==
    [blogSlug |-> slug,
     content |-> Trim(content),
     parentId |-> parentId,
     author |-> [name |-> Trim(authorName), email |-> Trim(authorEmail)],
     likes |-> 0,
     likedBy |-> <<>>,
     isEdited |-> FALSE,
     isDeleted |-> FALSE,
     createdAt |-> date,
     updatedAt |-> date,
     userIdentifier |-> u]

CommentIds == 1..Len(comments)

\* findOne({_id: new ObjectId(str), blogSlug: slug}): the _id found, or 0
FindCommentOfSlug(str, slug) ==
    IF ObjectId(str) \in CommentIds /\ comments[ObjectId(str)].blogSlug = slug
    THEN ObjectId(str) ELSE 0

\* findOne({_id: new ObjectId(str), blogSlug: slug, isDeleted: {$ne: true}})
FindLiveComment(str, slug) ==
    IF /\ FindCommentOfSlug(str, slug) # 0
       /\ ~comments[ObjectId(str)].isDeleted
    THEN ObjectId(str) ELSE 0

\* a parent lookup by _id alone, whatever the blogSlug
FindParentAnySlug(str, slug) ==
    IF ObjectId(str) \in 1..Len(comments) THEN ObjectId(str) ELSE 0

\* a parent lookup that takes the id without looking it up
FindParentUnchecked(str, slug) == ObjectId(str)

\* the parent lookup of POST /blogs/:slug/comments
FindParent(str, slug) == FindCommentOfSlug(str, slug)

\* a membership test that never finds the identity
CommentIsLikedNever(comment, u) == FALSE

\* comment.likedBy && comment.likedBy.includes(userId)
CommentIsLiked(comment, u) == Includes(comment.likedBy, u)

\* the updateQuery of the comment like route, applied by the store
CommentLikeUpdate(comment, isLiked, u) ==
    IF isLiked
    THEN [comment EXCEPT !.likes = @ - 1, !.likedBy = Pull(@, u)]
    ELSE [comment EXCEPT !.likes = @ + 1, !.likedBy = Append(@, u)]

\* an edit that also takes the likes away
EditUpdateResetsLikes(comment, content, date) ==
    [comment EXCEPT !.content = Trim(content), !.isEdited = TRUE,
                    !.updatedAt = date, !.likes = 0, !.likedBy = <<>>]

\* the $set of PUT /blogs/:slug/comments/:commentId
EditUpdate(comment, content, date) ==
    [comment EXCEPT !.content = Trim(content), !.isEdited = TRUE,
                    !.updatedAt = date]

\* the $set of DELETE /blogs/:slug/comments/:commentId
DeleteUpdate(comment, date) ==
    [comment EXCEPT !.isDeleted = TRUE, !.content = Placeholder,
                    !.updatedAt = date]

\* an ownership check that lets everyone through
NotOwnerNever(comment, u) == FALSE

\* comment.userIdentifier !== userIdentifier
NotOwner(comment, u) == comment.userIdentifier # u

------------------------------------------------------------------------------
(* POST /blogs/:slug/comments *)

AnonTokens == {"anon_k3"}     \* `anon_${Math.random().toString(36).substr(2, 9)}`

\* up to the first await on the store: validation, the caller's identity,
\* and, for a top-level comment, the newComment with its dates
CreateReceive(r, slug, content, parentId, authorName, authorEmail, header) ==
    /\ variant = "part_000"
    /\ CanStart(r)
    /\ \E u \in (IF header = NoUser THEN AnonTokens ELSE {header}) :
        LET rq == [kind |-> "create", pc |-> "start", slug |-> slug,
                   content |-> content, parentId |-> parentId,
                   authorName |-> authorName, authorEmail |-> authorEmail,
                   header |-> header,
                   userIdentifier |-> NoUser, date |-> NoDate,
                   status |-> 0, data |-> NoData]
        IN req' = [req EXCEPT ![r] =
            IF IsBlank(content) THEN Respond(rq, 400, NoData)
            ELSE IF authorName = <<>> \/ authorEmail = <<>>
                 THEN Respond(rq, 400, NoData)
            ELSE IF parentId # NoParent
                 THEN IF ObjectIdThrows(parentId) THEN Respond(rq, 500, NoData)
                      ELSE [rq EXCEPT !.pc = "findParent", !.userIdentifier = u]
            ELSE [rq EXCEPT !.pc = "insertOne", !.userIdentifier = u,
                            !.date = now]]
    /\ UNCHANGED <<globals, variant, blogs, comments, now>>

\* findOne of the parent, then the newComment with its dates
CreateFindParent(r) ==
    /\ req[r].kind = "create"
    /\ req[r].pc = "findParent"
    /\ req' = [req EXCEPT ![r] =
            IF FindParent(req[r].parentId, req[r].slug) = 0
            THEN Respond(@, 404, NoData)
            ELSE [@ EXCEPT !.pc = "insertOne", !.date = now]]
    /\ UNCHANGED <<globals, variant, blogs, comments, now>>

\* insertOne(newComment) and the 201 answer
CreateInsertOne(r) ==
    /\ req[r].kind = "create"
    /\ req[r].pc = "insertOne"
    /\ LET newComment ==
            NewComment(req[r].slug, req[r].content, req[r].parentId,
                       req[r].authorName, req[r].authorEmail,
                       req[r].userIdentifier, req[r].date)
       IN /\ comments' = Append(comments, newComment)
          /\ req' = [req EXCEPT ![r] =
                Respond(@, 201,
                    [_id |-> IdToString(Len(comments) + 1),
                     comment |-> newComment])]
    /\ UNCHANGED <<globals, variant, blogs, now>>

------------------------------------------------------------------------------
(* POST /blogs/:slug/comments/:commentId/like *)

CommentLikeReceive(r, slug, commentId, userId) ==
    /\ variant = "part_000"
    /\ CanStart(r)
    /\ LET rq == [kind |-> "commentLike", pc |-> "start", slug |-> slug,
                  commentId |-> commentId, userId |-> userId,
                  isLiked |-> FALSE, status |-> 0, data |-> NoData]
       IN req' = [req EXCEPT ![r] =
            IF userId = NoUser THEN Respond(rq, 400, NoData)
            ELSE IF ObjectIdThrows(commentId) THEN Respond(rq, 500, NoData)
            ELSE [rq EXCEPT !.pc = "findOne"]]
    /\ UNCHANGED <<globals, variant, blogs, comments, now>>

\* findOne of the live comment, and the choice between like and unlike
CommentLikeFindOne(r) ==
    /\ req[r].kind = "commentLike"
    /\ req[r].pc = "findOne"
    /\ LET k == FindLiveComment(req[r].commentId, req[r].slug) IN
       req' = [req EXCEPT ![r] =
            IF k = 0 THEN Respond(@, 404, NoData)
            ELSE [@ EXCEPT !.pc = "updateOne",
                           !.isLiked = CommentIsLiked(comments[k], req[r].userId)]]
    /\ UNCHANGED <<globals, variant, blogs, comments, now>>

\* updateOne({_id}, updateQuery)
CommentLikeUpdateOne(r) ==
    /\ req[r].kind = "commentLike"
    /\ req[r].pc = "updateOne"
    /\ LET k == ObjectId(req[r].commentId) IN
       comments' = [comments EXCEPT ![k] =
                        CommentLikeUpdate(@, req[r].isLiked, req[r].userId)]
    /\ req' = [req EXCEPT ![r].pc = "refetch"]
    /\ UNCHANGED <<globals, variant, blogs, now>>

\* findOne({_id}) and the answer
CommentLikeRefetch(r) ==
    /\ req[r].kind = "commentLike"
    /\ req[r].pc = "refetch"
    /\ LET updatedComment == comments[ObjectId(req[r].commentId)] IN
       req' = [req EXCEPT ![r] =
            Respond(@, 200, [likes |-> updatedComment.likes,
                             likedBy |-> updatedComment.likedBy])]
    /\ UNCHANGED <<globals, variant, blogs, comments, now>>

------------------------------------------------------------------------------
(* PUT /blogs/:slug/comments/:commentId *)

EditReceive(r, slug, commentId, content, u) ==
    /\ variant = "part_000"
    /\ CanStart(r)
    /\ LET rq == [kind |-> "edit", pc |-> "start", slug |-> slug,
                  commentId |-> commentId, content |-> content,
                  userIdentifier |-> u, date |-> NoDate,
                  status |-> 0, data |-> NoData]
       IN req' = [req EXCEPT ![r] =
            IF IsBlank(content) THEN Respond(rq, 400, NoData)
            ELSE IF u = NoUser THEN Respond(rq, 400, NoData)
            ELSE IF ObjectIdThrows(commentId) THEN Respond(rq, 500, NoData)
            ELSE [rq EXCEPT !.pc = "findOne"]]
    /\ UNCHANGED <<globals, variant, blogs, comments, now>>

\* findOne of the live comment, the ownership check, and the $set document
EditFindOne(r) ==
    /\ req[r].kind = "edit"
    /\ req[r].pc = "findOne"
    /\ LET k == FindLiveComment(req[r].commentId, req[r].slug) IN
       req' = [req EXCEPT ![r] =
            IF k = 0 THEN Respond(@, 404, NoData)
            ELSE IF NotOwner(comments[k], req[r].userIdentifier)
                 THEN Respond(@, 403, NoData)
            ELSE [@ EXCEPT !.pc = "updateOne", !.date = now]]
    /\ UNCHANGED <<globals, variant, blogs, comments, now>>

\* updateOne({_id}, {$set: ...})
EditUpdateOne(r) ==
    /\ req[r].kind = "edit"
    /\ req[r].pc = "updateOne"
    /\ LET k == ObjectId(req[r].commentId) IN
       comments' = [comments EXCEPT ![k] =
                        EditUpdate(@, req[r].content, req[r].date)]
    /\ req' = [req EXCEPT ![r].pc = "refetch"]
    /\ UNCHANGED <<globals, variant, blogs, now>>

\* findOne({_id}) and the answer
EditRefetch(r) ==
    /\ req[r].kind = "edit"
    /\ req[r].pc = "refetch"
    /\ req' = [req EXCEPT ![r] =
            Respond(@, 200, comments[ObjectId(req[r].commentId)])]
    /\ UNCHANGED <<globals, variant, blogs, comments, now>>

------------------------------------------------------------------------------
(* DELETE /blogs/:slug/comments/:commentId *)

DeleteReceive(r, slug, commentId, u) ==
    /\ variant = "part_000"
    /\ CanStart(r)
    /\ LET rq == [kind |-> "delete", pc |-> "start", slug |-> slug,
                  commentId |-> commentId, userIdentifier |-> u,
                  date |-> NoDate, status |-> 0, data |-> NoData]
       IN req' = [req EXCEPT ![r] =
            IF u = NoUser THEN Respond(rq, 400, NoData)
            ELSE IF ObjectIdThrows(commentId) THEN Respond(rq, 500, NoData)
            ELSE [rq EXCEPT !.pc = "findOne"]]
    /\ UNCHANGED <<globals, variant, blogs, comments, now>>

DeleteFindOne(r) ==
    /\ req[r].kind = "delete"
    /\ req[r].pc = "findOne"
    /\ LET k == FindLiveComment(req[r].commentId, req[r].slug) IN
       req' = [req EXCEPT ![r] =
            IF k = 0 THEN Respond(@, 404, NoData)
            ELSE IF NotOwner(comments[k], req[r].userIdentifier)
                 THEN Respond(@, 403, NoData)
            ELSE [@ EXCEPT !.pc = "updateOne", !.date = now]]
    /\ UNCHANGED <<globals, variant, blogs, comments, now>>

\* updateOne({_id}, {$set: ...}) and the answer
DeleteUpdateOne(r) ==
    /\ req[r].kind = "delete"
    /\ req[r].pc = "updateOne"
    /\ LET k == ObjectId(req[r].commentId) IN
       comments' = [comments EXCEPT ![k] = DeleteUpdate(@, req[r].date)]
    /\ req' = [req EXCEPT ![r] = Respond(@, 200, NoData)]
    /\ UNCHANGED <<globals, variant, blogs, now>>

------------------------------------------------------------------------------
(* GET /blogs/:slug/comments *)

\* find({blogSlug, parentId: null, isDeleted: {$ne: true}})
LiveRoots(slug) ==
    {k \in CommentIds : /\ comments[k].blogSlug = slug
                        /\ comments[k].parentId = NoParent
                        /\ ~comments[k].isDeleted}

\* find({parentId: comment._id.toString(), isDeleted: {$ne: true}})
LiveReplies(k) ==
    {c \in CommentIds : /\ comments[c].parentId = IdToString(k)
                        /\ ~comments[c].isDeleted}

\* sort {createdAt: -1}
NewestFirst(a, b) == comments[a].createdAt > comments[b].createdAt

\* sort {likes: -1}
PopularFirstLikesOnly(a, b) == comments[a].likes > comments[b].likes

\* sort {likes: -1, createdAt: -1}
PopularFirst(a, b) ==
    \/ comments[a].likes > comments[b].likes
    \/ /\ comments[a].likes = comments[b].likes
       /\ comments[a].createdAt > comments[b].createdAt

\* sort {createdAt: 1}
OldestFirst(a, b) == comments[a].createdAt < comments[b].createdAt

\* the sort keys put a strictly before b
Before(sort, a, b) ==
    CASE sort = "popular" -> PopularFirst(a, b)
      [] sort = "oldest"  -> OldestFirst(a, b)
      [] OTHER            -> NewestFirst(a, b)

\* the orders in which a sort may return the documents with _ids in S:
\* documents with equal keys come in any order
Orders(S, sort) ==
    {f \in [1..Cardinality(S) -> S] :
        /\ \A i, j \in 1..Cardinality(S) : i # j => f[i] # f[j]
        /\ \A i, j \in 1..Cardinality(S) : i < j => ~Before(sort, f[j], f[i])}

\* sort is "popular", or anything else for the default
SortedRoots(slug, sort) ==
    Orders(LiveRoots(slug), IF sort = "popular" THEN "popular" ELSE "newest")

SortedReplies(k) == Orders(LiveReplies(k), "oldest")

\* the body of the 200 answer: the roots in the order found, each with the
\* replies found for it
ThreadData(roots, replies) ==
    [comments |-> [i \in 1..Len(roots) |->
                      [_id |-> roots[i], replies |-> replies[roots[i]]]],
     count |-> Len(roots)]

GetReceive(r, slug, sort) ==
    /\ variant = "part_000"
    /\ CanStart(r)
    /\ req' = [req EXCEPT ![r] =
            [kind |-> "get", pc |-> "findRoots", slug |-> slug, sort |-> sort,
             roots |-> <<>>, pending |-> {}, replies |-> <<>>,
             status |-> 0, data |-> NoData]]
    /\ UNCHANGED <<globals, variant, blogs, comments, now>>

\* find(query).sort(sortOption).toArray(); with no root found the answer
\* is the empty list
GetFindRoots(r) ==
    /\ req[r].kind = "get"
    /\ req[r].pc = "findRoots"
    /\ \E roots \in SortedRoots(req[r].slug, req[r].sort) :
        req' = [req EXCEPT ![r] =
            IF Len(roots) = 0
            THEN Respond([@ EXCEPT !.roots = roots], 200,
                         ThreadData(roots, <<>>))
            ELSE [@ EXCEPT !.pc = "findReplies", !.roots = roots,
                           !.pending = LiveRoots(req[r].slug),
                           !.replies = [k \in LiveRoots(req[r].slug) |-> <<>>]]]
    /\ UNCHANGED <<globals, variant, blogs, comments, now>>

\* one of the reply lookups of Promise.all; the last one to resolve
\* sends the answer
GetFindReplies(r, k) ==
    /\ req[r].kind = "get"
    /\ req[r].pc = "findReplies"
    /\ k \in req[r].pending
    /\ \E found \in SortedReplies(k) :
        LET replies == [req[r].replies EXCEPT ![k] = found] IN
        req' = [req EXCEPT ![r] =
            IF req[r].pending = {k}
            THEN Respond([@ EXCEPT !.pending = {}, !.replies = replies], 200,
                         ThreadData(req[r].roots, replies))
            ELSE [@ EXCEPT !.pending = @ \ {k}, !.replies = replies]]
    /\ UNCHANGED <<globals, variant, blogs, comments, now>>

------------------------------------------------------------------------------
(* The comments model: any interleaving of comment requests on a           *)
(* collection that holds nothing, one top-level comment, or a top-level    *)
(* comment and a reply to it.                                              *)

Hi == <<"h", "i">>
PaddedYo == <<" ", "y", "o", " ">>
Blank == <<" ">>
AuthorA == <<"A">>
EmailA == <<"a", "@", "x">>

Root == NewComment("foo", Hi, NoParent, AuthorA, EmailA, "u1", 1)
Reply == NewComment("foo", Hi, IdToString(1), AuthorA, EmailA, "u2", 1)

IdsTried == {1, 2, 3}

CreateInputs ==
    [slug : {"foo"}, content : {PaddedYo},
     parentId : {NoParent, Malformed, UpperCase(1)}
                    \cup {IdToString(k) : k \in IdsTried},
     authorName : {AuthorA}, authorEmail : {EmailA}, header : {"u1"}]
    \cup [slug : {"foo"}, content : {PaddedYo}, parentId : {NoParent},
          authorName : {AuthorA}, authorEmail : {EmailA}, header : {NoUser}]
    \cup [slug : {"bar"}, content : {PaddedYo},
          parentId : {NoParent, IdToString(1)},
          authorName : {AuthorA}, authorEmail : {EmailA}, header : {"u2"}]
    \cup [slug : {"foo"}, content : {Blank}, parentId : {NoParent},
          authorName : {AuthorA}, authorEmail : {EmailA}, header : {"u1"}]
    \cup [slug : {"foo"}, content : {PaddedYo}, parentId : {NoParent},
          authorName : {<<>>}, authorEmail : {EmailA}, header : {"u1"}]

CommentLikeInputs ==
    [slug : {"foo"}, commentId : {IdToString(1)}, userId : Users \cup {NoUser}]
    \cup [slug : {"foo"}, commentId : {IdToString(2)}, userId : {"u1"}]

EditInputs ==
    [slug : {"foo"}, commentId : {IdToString(1)}, content : {PaddedYo},
     userIdentifier : Users \cup {NoUser}]
    \cup [slug : {"foo"}, commentId : {IdToString(1)}, content : {Blank},
          userIdentifier : {"u1"}]
    \cup [slug : {"foo"}, commentId : {IdToString(2)}, content : {PaddedYo},
          userIdentifier : {"u2"}]

DeleteInputs ==
    [slug : {"foo"}, commentId : {IdToString(1)},
     userIdentifier : Users \cup {NoUser}]
    \cup [slug : {"foo"}, commentId : {IdToString(2)}, userIdentifier : {"u2"}]
    \cup [slug : {"bar"}, commentId : {IdToString(1)}, userIdentifier : {"u1"}]

GetInputs == [slug : {"foo"}, sort : {"newest", "popular"}]

InitComments ==
    /\ variant = "part_000"
    /\ blogs = <<NewBlog("foo")>>
    /\ comments \in {<<>>, <<Root>>, <<Root, Reply>>}
    /\ now = 1
    /\ req = [r \in CommentReqs |-> Idle]
    /\ Cached
    /\ NotServer

NextComments ==
    \/ \E r \in CommentReqs, in \in CreateInputs :
            CreateReceive(r, in.slug, in.content, in.parentId, in.authorName,
                          in.authorEmail, in.header)
    \/ \E r \in CommentReqs, in \in CommentLikeInputs :
            CommentLikeReceive(r, in.slug, in.commentId, in.userId)
    \/ \E r \in CommentReqs, in \in EditInputs :
            EditReceive(r, in.slug, in.commentId, in.content, in.userIdentifier)
    \/ \E r \in CommentReqs, in \in DeleteInputs :
            DeleteReceive(r, in.slug, in.commentId, in.userIdentifier)
    \/ \E r \in CommentReqs, in \in GetInputs :
            GetReceive(r, in.slug, in.sort)
    \/ \E r \in CommentReqs :
            \/ CreateFindParent(r)
            \/ CreateInsertOne(r)
            \/ CommentLikeFindOne(r)
            \/ CommentLikeUpdateOne(r)
            \/ CommentLikeRefetch(r)
            \/ EditFindOne(r)
            \/ EditUpdateOne(r)
            \/ EditRefetch(r)
            \/ DeleteFindOne(r)
            \/ DeleteUpdateOne(r)
            \/ GetFindRoots(r)
    \/ \E r \in CommentReqs, k \in CommentIds : GetFindReplies(r, k)
    \/ Tick

SpecComments == InitComments /\ [][NextComments]_vars

------------------------------------------------------------------------------
(* Properties of the comment routes *)

IsReply(c) == comments[c].parentId # NoParent

\* the stored comment that the parentId of reply c names, or 0
ParentOf(c) ==
    IF ObjectId(comments[c].parentId) \in CommentIds
    THEN ObjectId(comments[c].parentId) ELSE 0

\* C3: for every comment, in every reachable state, likedBy holds no
\* identity twice and its size equals likes.
C3_CommentLikedByMatchesLikes ==
    \A k \in CommentIds :
        /\ \A u \in Users : Count(comments[k].likedBy, u) <= 1
        /\ Len(comments[k].likedBy) = comments[k].likes

\* C6: a comment that has isDeleted = true still has it after every step,
\* and its content is still the placeholder.
C6_DeletedStaysPlaceholder ==
    [][\A k \in CommentIds :
         comments[k].isDeleted =>
            /\ comments'[k].isDeleted
            /\ comments'[k].content = Placeholder]_vars

\* C7: every comment with a non-null parentId references a stored comment
\* whose parentId is null (a create request naming any other parent stores
\* nothing).
C7_DepthAtMostTwo ==
    \A c \in CommentIds :
        IsReply(c) =>
            /\ ParentOf(c) # 0
            /\ comments[ParentOf(c)].parentId = NoParent

\* request r is an edit or delete request
IsEditOrDelete(rq) == rq.kind \in {"edit", "delete"}

\* the step in which request r is answered
Answers(r) == req[r].pc # "done" /\ req'[r].pc = "done"

\* C8 as stated: an edit or delete request (with a non-empty identifier and,
\* for edit, non-empty content) whose identifier differs from the one
\* stored on the comment it names under its slug is answered 403, and the
\* step that answers it changes no comment.
C8_MismatchIsForbidden ==
    [][\A r \in DOMAIN req :
         ( /\ Answers(r)
           /\ IsEditOrDelete(req'[r])
           /\ req'[r].userIdentifier # NoUser
           /\ req'[r].kind = "edit" => ~IsBlank(req'[r].content)
           /\ ~ObjectIdThrows(req'[r].commentId)
           /\ FindCommentOfSlug(req'[r].commentId, req'[r].slug) # 0
           /\ NotOwner(comments[ObjectId(req'[r].commentId)],
                       req'[r].userIdentifier) )
         => /\ req'[r].status = 403
            /\ comments' = comments]_vars

\* the lookup step of edit / delete request r
LooksUp(r) ==
    /\ IsEditOrDelete(req[r])
    /\ req[r].pc = "findOne"
    /\ req'[r].pc # "findOne"

\* the write step of edit / delete request r
Writes(r) ==
    /\ IsEditOrDelete(req[r])
    /\ req[r].pc = "updateOne"
    /\ req'[r].pc # "updateOne"

\* C8 amended: when the lookup of an edit or delete request (non-empty
\* identifier, for edit non-empty content) finds its comment, stored under
\* the slug and not deleted, then a differing identifier is answered 403
\* and no comment changes, and a matching identifier makes the request go
\* on to its write; the write of an edit sets the trimmed content and
\* isEdited = true, the write of a delete sets isDeleted = true.
C8_OwnerCheckOnLiveComment ==
    [][\A r \in DOMAIN req :
         /\ ( LooksUp(r) /\ FindLiveComment(req[r].commentId, req[r].slug) # 0 )
            => LET k == FindLiveComment(req[r].commentId, req[r].slug) IN
               IF comments[k].userIdentifier # req[r].userIdentifier
               THEN /\ req'[r].pc = "done"
                    /\ req'[r].status = 403
                    /\ comments' = comments
               ELSE req'[r].pc = "updateOne"
         /\ Writes(r)
            => LET k == ObjectId(req[r].commentId) IN
               IF req[r].kind = "edit"
               THEN /\ comments'[k].content = Trim(req[r].content)
                    /\ comments'[k].isEdited
               ELSE comments'[k].isDeleted]_vars

\* C8 witness: a delete by another identity was answered 403 and left the
\* comment alone, and an edit by the owner was applied and answered.
C8_Witness ==
    \E r, q \in DOMAIN req :
        /\ req[r].kind = "delete" /\ req[r].pc = "done" /\ req[r].status = 403
        /\ req[r].commentId = IdToString(1)
        /\ req[q].kind = "edit" /\ req[q].pc = "done" /\ req[q].status = 200
        /\ req[q].commentId = IdToString(1)
        /\ comments[1].isEdited
        /\ comments[1].content = Trim(req[q].content)
        /\ ~comments[1].isDeleted

\* the _ids of the replies in the answer of GET request r
ReturnedReplies(r) ==
    UNION {Distinct(req[r].data.comments[i].replies) :
                i \in 1..Len(req[r].data.comments)}

\* C9: in a run whose other requests are deletes (so every stored reply
\* was there before any deletion), the answer of GET /blogs/:slug/comments
\* holds every non-deleted reply of a soft-deleted root of the slug.
C9_RepliesOfDeletedRootReturned ==
    \A r \in DOMAIN req :
        ( /\ req[r].kind = "get" /\ req[r].pc = "done"
          /\ \A o \in DOMAIN req \ {r} : req[o].kind \in {"none", "delete"} )
        => \A c \in CommentIds :
             ( /\ IsReply(c) /\ ~comments[c].isDeleted
               /\ ParentOf(c) # 0
               /\ comments[ParentOf(c)].parentId = NoParent
               /\ comments[ParentOf(c)].blogSlug = req[r].slug
               /\ comments[ParentOf(c)].isDeleted )
             => c \in ReturnedReplies(r)

IsCommentLike(r, k, u) ==
    /\ req[r].kind = "commentLike"
    /\ req[r].slug = "foo"
    /\ req[r].commentId = IdToString(k)
    /\ req[r].userId = u

\* C11: no step changes likes or likedBy of a comment that is soft-deleted
\* (a comment-like request whose comment was deleted after its lookup
\* writes nothing), and a comment-like request that is answered while its
\* comment is soft-deleted is answered 404.
C11_NoLikeOnDeletedComment ==
    [][/\ \A k \in CommentIds :
            comments[k].isDeleted =>
                /\ comments'[k].likes = comments[k].likes
                /\ comments'[k].likedBy = comments[k].likedBy
       /\ \A r \in DOMAIN req :
            ( /\ Answers(r)
              /\ req[r].kind = "commentLike"
              /\ req[r].userId # NoUser
              /\ FindCommentOfSlug(req[r].commentId, req[r].slug) # 0
              /\ comments[ObjectId(req[r].commentId)].isDeleted )
            => req'[r].status = 404]_vars

\* every request but r and q is still to come
OnlyRequests(r, q) == \A o \in DOMAIN req \ {r, q} : req[o].pc = "idle"

\* C12: comment 1 and an identity u that is not in its likedBy, with two
\* like requests from u as the only requests.  The write of the first
\* adds u and raises likes by 1; the second, whose lookup runs after the
\* first was answered, finds u and goes on to unlike; its write removes u
\* and lowers likes by 1, back to the value the comment started with.
C12_TwoCommentLikesRestore ==
    [][\A r, q \in DOMAIN req : \A u \in Users :
         ( /\ r # q
           /\ IsCommentLike(r, 1, u)
           /\ ~req[r].isLiked
           /\ OnlyRequests(r, q) )
         => /\ ( /\ req[r].pc = "updateOne" /\ req'[r].pc # "updateOne"
                 /\ req[q].pc = "idle"
                 /\ ~Includes(comments[1].likedBy, u) )
               => /\ comments'[1].likes = comments[1].likes + 1
                  /\ Count(comments'[1].likedBy, u) = 1
            /\ ( /\ req[r].pc = "done" /\ req[r].status = 200
                 /\ IsCommentLike(q, 1, u)
                 /\ req[q].pc = "findOne" /\ req'[q].pc # "findOne" )
               => /\ req'[q].pc = "updateOne"
                  /\ req'[q].isLiked
            /\ ( /\ req[r].pc = "done" /\ req[r].status = 200
                 /\ IsCommentLike(q, 1, u)
                 /\ req[q].isLiked
                 /\ req[q].pc = "updateOne" /\ req'[q].pc # "updateOne" )
               => /\ comments'[1].likes = comments[1].likes - 1
                  /\ comments'[1].likes = Root.likes
                  /\ ~Includes(comments'[1].likedBy, u)]_vars

\* C12 witness: the first like was answered with likes 1 and u in likedBy,
\* the second with likes 0 and u gone, and the comment is as it started.
C12_Witness ==
    \E r, q \in DOMAIN req : \E u \in Users :
        /\ r # q
        /\ IsCommentLike(r, 1, u) /\ IsCommentLike(q, 1, u)
        /\ req[r].pc = "done" /\ req[r].status = 200 /\ ~req[r].isLiked
        /\ req[r].data.likes = Root.likes + 1
        /\ Includes(req[r].data.likedBy, u)
        /\ req[q].pc = "done" /\ req[q].status = 200 /\ req[q].isLiked
        /\ req[q].data.likes = Root.likes
        /\ ~Includes(req[q].data.likedBy, u)
        /\ comments[1].likes = Root.likes
        /\ comments[1].likedBy = Root.likedBy

------------------------------------------------------------------------------
(* Properties of the stats route: repeated and redundant like / unlike     *)

\* the step in which stats request r reads the blog (and, in src/index.js,
\* updates it)
StatsLooksUp(r) ==
    /\ StatsOf(r)
    /\ req[r].pc \in {"findOne", "findOneAndUpdate"}
    /\ req'[r].pc # req[r].pc

\* C13: on a post u1 has not liked (likes 0), with a like request of u1
\* answered 200 and no other request sent, a second like request of u1
\* that looks the post up afterwards is answered 200 with isLiked = false
\* and likes = 0, the value before the first request.
C13_SecondLikeReportsUnliked ==
    [][\A r, q \in DOMAIN req :
         ( /\ r # q
           /\ \A o \in DOMAIN req \ {r, q} : req[o].pc = "idle"
           /\ IsStats(r, "foo", "like") /\ req[r].userIdentifier = "u1"
           /\ req[r].pc = "done" /\ req[r].status = 200
           /\ IsStats(q, "foo", "like") /\ req[q].userIdentifier = "u1"
           /\ StatsLooksUp(q)
           /\ req'[q].pc = "done" )
         => /\ req'[q].status = 200
            /\ ~req'[q].data.isLiked
            /\ req'[q].data.likes = 0]_vars

\* like by an identity that has liked the post, or unlike by one that has not
IsRedundant(r) ==
    /\ StatsOf(r)
    /\ req[r].userIdentifier # NoUser
    /\ FindBlog(req[r].slug) # NoDoc
    /\ \/ /\ req[r].action = "like"
          /\ BlogIsLiked(FindBlog(req[r].slug), req[r].userIdentifier)
       \/ /\ req[r].action = "unlike"
          /\ ~BlogIsLiked(FindBlog(req[r].slug), req[r].userIdentifier)

\* C14: a like request that finds its identity in likedBy, and an unlike
\* request that does not find it, is answered 200 with the likes and
\* isLiked the post has, and leaves likes and likedBy of the post as they
\* are.
C14_RedundantLikeChangesNothing ==
    [][\A r \in DOMAIN req :
         ( StatsLooksUp(r) /\ IsRedundant(r) )
         => LET blog == FindBlog(req[r].slug) IN
            /\ req'[r].pc = "done"
            /\ req'[r].status = 200
            /\ req'[r].data.likes = blog.likes
            /\ req'[r].data.isLiked = BlogIsLiked(blog, req[r].userIdentifier)
            /\ FindBlog(req[r].slug)'.likes = blog.likes
            /\ LikedByOrEmpty(FindBlog(req[r].slug))' = LikedByOrEmpty(blog)]_vars

\* C15: likes of every post and of every comment is at least 0.
C15_LikesNeverNegative ==
    /\ \A i \in 1..Len(blogs) : blogs[i].likes >= 0
    /\ \A k \in CommentIds : comments[k].likes >= 0

------------------------------------------------------------------------------
(* Blog documents of the CRUD routes (the same code in src/index.js and    *)
(* src/unnamed/part_000).  An absent or empty body field is "".            *)

MaxBlogReqs == 2    \* requests handled in one run of the blogs model

BlogReqs == 1..MaxBlogReqs

\* !title || !slug || !excerpt || !coverImage || !date
MissingRequired(body) ==
    \/ body.title = ""
    \/ body.slug = ""
    \/ body.excerpt = ""
    \/ body.coverImage = ""
    \/ body.date = ""

\* the newBlog of POST /postblogs
NewBlogDocument(body, date) ==
    [title |-> body.title,
     slug |-> body.slug,
     excerpt |-> body.excerpt,
     coverImage |-> body.coverImage,
     date |-> body.date,
     content |-> body.content,
     author |-> IF body.author = "" THEN "Unknown" ELSE body.author,
     likes |-> 0,
     views |-> 0,
     hasLikedBy |-> TRUE,
     likedBy |-> <<>>,
     lastViewed |-> NoDate,
     createdAt |-> date,
     updatedAt |-> date]

\* { ...updateData, updatedAt: new Date() }
SetDocument(updateData, date) == [updatedAt |-> date] @@ updateData

\* the store's application of {$set: set} to a document
ApplySet(doc, set) ==
    [f \in (DOMAIN doc) \cup (DOMAIN set) |->
        IF f \in DOMAIN set THEN set[f]
        ELSE IF f = "hasLikedBy" THEN doc[f] \/ "likedBy" \in DOMAIN set
        ELSE doc[f]]

\* the collection without its i-th document
RemoveAt(seq, i) == SubSeq(seq, 1, i - 1) \o SubSeq(seq, i + 1, Len(seq))

------------------------------------------------------------------------------
(* POST /postblogs *)

\* validation and the newBlog, up to the await of insertOne
PostBlogsReceive(r, body) ==
    /\ CanStart(r)
    /\ LET rq == [kind |-> "postblogs", pc |-> "start", body |-> body,
                  newBlog |-> NoDoc, status |-> 0, data |-> NoData]
       IN req' = [req EXCEPT ![r] =
            IF MissingRequired(body) THEN Respond(rq, 400, NoData)
            ELSE [rq EXCEPT !.pc = "insertOne",
                            !.newBlog = NewBlogDocument(body, now)]]
    /\ UNCHANGED <<globals, variant, blogs, comments, now>>

\* insertOne(newBlog) and the 201 answer
PostBlogsInsertOne(r) ==
    /\ req[r].kind = "postblogs"
    /\ req[r].pc = "insertOne"
    /\ blogs' = Append(blogs, req[r].newBlog)
    /\ req' = [req EXCEPT ![r] = Respond(@, 201, req[r].newBlog)]
    /\ UNCHANGED <<globals, variant, comments, now>>

------------------------------------------------------------------------------
(* PUT /blogs/:slug *)

\* the $set document, up to the await of updateOne
PutBlogReceive(r, slug, updateData) ==
    /\ CanStart(r)
    /\ req' = [req EXCEPT ![r] =
            [kind |-> "putblog", pc |-> "updateOne", slug |-> slug,
             set |-> SetDocument(updateData, now),
             status |-> 0, data |-> NoData]]
    /\ UNCHANGED <<globals, variant, blogs, comments, now>>

\* updateOne({slug}, {$set: ...}) and the answer by matchedCount
PutBlogUpdateOne(r) ==
    /\ req[r].kind = "putblog"
    /\ req[r].pc = "updateOne"
    /\ LET i == FindBlogIndex(req[r].slug) IN
       IF i = 0
       THEN /\ req' = [req EXCEPT ![r] = Respond(@, 404, NoData)]
            /\ UNCHANGED blogs
       ELSE /\ blogs' = [blogs EXCEPT ![i] = ApplySet(@, req[r].set)]
            /\ req' = [req EXCEPT ![r] = Respond(@, 200, NoData)]
    /\ UNCHANGED <<globals, variant, comments, now>>

------------------------------------------------------------------------------
(* DELETE /blogs/:slug *)

DeleteBlogReceive(r, slug) ==
    /\ CanStart(r)
    /\ req' = [req EXCEPT ![r] =
            [kind |-> "deleteblog", pc |-> "deleteOne", slug |-> slug,
             status |-> 0, data |-> NoData]]
    /\ UNCHANGED <<globals, variant, blogs, comments, now>>

\* deleteOne({slug}) and the answer by deletedCount
DeleteBlogDeleteOne(r) ==
    /\ req[r].kind = "deleteblog"
    /\ req[r].pc = "deleteOne"
    /\ LET i == FindBlogIndex(req[r].slug) IN
       IF i = 0
       THEN /\ req' = [req EXCEPT ![r] = Respond(@, 404, NoData)]
            /\ UNCHANGED blogs
       ELSE /\ blogs' = RemoveAt(blogs, i)
            /\ req' = [req EXCEPT ![r] = Respond(@, 200, NoData)]
    /\ UNCHANGED <<globals, variant, comments, now>>

------------------------------------------------------------------------------
(* The blogs model: any interleaving of blog creations, updates and        *)
(* deletions with stats requests and top-level comment creations, on a     *)
(* collection that holds nothing or one blog created by POST /postblogs.   *)

FooBody ==
    [title |-> "T", slug |-> "foo", excerpt |-> "e", coverImage |-> "c",
     date |-> "d", content |-> "", author |-> ""]

PostBlogsInputs ==
    {FooBody,
     [FooBody EXCEPT !.slug = "bar", !.author = "A"],
     [FooBody EXCEPT !.title = ""],
     [FooBody EXCEPT !.slug = ""]}

\* the bodies of PUT /blogs/:slug tried: any JSON object is accepted
PutBlogBodies ==
    {[title |-> "T2"], [likes |-> 5], [views |-> 0], [likedBy |-> <<"u2">>],
     [slug |-> "bar"]}

PutBlogInputs ==
    [slug : {"foo"}, updateData : PutBlogBodies]
    \cup [slug : {"bar"}, updateData : {[title |-> "T2"]}]

DeleteBlogInputs == {"foo", "bar"}

BlogStatsInputs ==
    {[slug |-> "foo", action |-> "view", userIdentifier |-> NoUser],
     [slug |-> "foo", action |-> "like", userIdentifier |-> "u1"]}

BlogCommentInputs == {"foo", "bar"}

InitBlogs ==
    /\ variant = "part_000"
    /\ blogs \in {<<>>, <<NewBlogDocument(FooBody, 1)>>}
    /\ comments = <<>>
    /\ now = 1
    /\ req = [r \in BlogReqs |-> Idle]
    /\ Cached
    /\ NotServer

NextBlogs ==
    \/ \E r \in BlogReqs, body \in PostBlogsInputs : PostBlogsReceive(r, body)
    \/ \E r \in BlogReqs, in \in PutBlogInputs :
            PutBlogReceive(r, in.slug, in.updateData)
    \/ \E r \in BlogReqs, slug \in DeleteBlogInputs : DeleteBlogReceive(r, slug)
    \/ \E r \in BlogReqs, in \in BlogStatsInputs :
            PartStatsReceive(r, in.slug, in.action, in.userIdentifier)
    \/ \E r \in BlogReqs, slug \in BlogCommentInputs :
            CreateReceive(r, slug, Hi, NoParent, AuthorA, EmailA, "u1")
    \/ \E r \in BlogReqs :
            \/ PostBlogsInsertOne(r)
            \/ PutBlogUpdateOne(r)
            \/ DeleteBlogDeleteOne(r)
            \/ PartStatsFindOne(r)
            \/ PartStatsUpdateOne(r)
            \/ PartStatsRefetch(r)
            \/ CreateInsertOne(r)
    \/ Tick

SpecBlogs == InitBlogs /\ [][NextBlogs]_vars

------------------------------------------------------------------------------
(* Properties of the blog documents *)

\* the step is the write of a POST /blogs/:slug/stats request
StatsWrites ==
    \E r \in DOMAIN req :
        /\ StatsOf(r)
        /\ req[r].pc \in {"updateOne", "findOneAndUpdate"}
        /\ req'[r].pc # req[r].pc

\* C16: a step that is not the write of a stats request and neither adds
\* nor removes a post leaves likes, views and likedBy of every post as
\* they are; and no step that keeps the posts lowers the views of one.
C16_EngagementOnlyThroughStats ==
    [][Len(blogs') = Len(blogs) =>
         \A i \in 1..Len(blogs) :
            /\ blogs'[i].views >= blogs[i].views
            /\ ~StatsWrites =>
                 /\ blogs'[i].likes = blogs[i].likes
                 /\ blogs'[i].views = blogs[i].views
                 /\ blogs'[i].likedBy = blogs[i].likedBy]_vars

\* C17: after every step no two stored posts have the same slug, and a
\* post that was stored before the step and is not removed by it keeps
\* its slug.
C17_SlugUniqueAndImmutable ==
    [][/\ \A i, j \in 1..Len(blogs') :
            i # j => blogs'[i].slug # blogs'[j].slug
       /\ Len(blogs') >= Len(blogs) =>
            \A i \in 1..Len(blogs) : blogs'[i].slug = blogs[i].slug]_vars

\* C18: the blogSlug of every stored comment is the slug of a stored post.
C18_CommentSlugNamesPost ==
    \A k \in CommentIds : FindBlog(comments[k].blogSlug) # NoDoc

------------------------------------------------------------------------------
(* Properties of GET /blogs/:slug/comments *)

\* the step in which GET request r reads the roots
ReadsRoots(r) ==
    /\ req[r].kind = "get"
    /\ req[r].pc = "findRoots"
    /\ req'[r].pc # "findRoots"

\* the step in which GET request r reads the replies of root k
ReadsReplies(r, k) ==
    /\ req[r].kind = "get"
    /\ req[r].pc = "findReplies"
    /\ k \in req[r].pending
    /\ k \notin req'[r].pending

\* C19: the roots a GET request reads are exactly the stored comments of
\* its slug with parentId null that are not deleted, each once; the
\* replies it reads for a root are exactly the stored comments that are
\* not deleted and whose parentId names that root, each once (so a reply
\* created under a root is among the replies of that root and of no other);
\* and the answer lists these roots, each with the replies read for it.
C19_ThreadHoldsLiveRootsAndReplies ==
    [][\A r \in DOMAIN req :
         /\ ReadsRoots(r) =>
              /\ Distinct(req'[r].roots) =
                    {k \in CommentIds : /\ comments[k].blogSlug = req[r].slug
                                        /\ ~IsReply(k)
                                        /\ ~comments[k].isDeleted}
              /\ Cardinality(Distinct(req'[r].roots)) = Len(req'[r].roots)
         /\ \A k \in CommentIds :
              ReadsReplies(r, k) =>
                /\ Distinct(req'[r].replies[k]) =
                      {c \in CommentIds : /\ IsReply(c)
                                          /\ ParentOf(c) = k
                                          /\ ~comments[c].isDeleted}
                /\ Cardinality(Distinct(req'[r].replies[k])) =
                      Len(req'[r].replies[k])
         /\ ( req[r].kind = "get" /\ Answers(r) ) =>
              /\ req'[r].status = 200
              /\ Len(req'[r].data.comments) = Len(req'[r].roots)
              /\ \A i \in 1..Len(req'[r].roots) :
                    /\ req'[r].data.comments[i]._id = req'[r].roots[i]
                    /\ Len(req'[r].roots) > 0 =>
                         req'[r].data.comments[i].replies =
                            req'[r].replies[req'[r].roots[i]]]_vars

------------------------------------------------------------------------------
(* The thread model: GET requests, interleaved with comment likes, on a    *)
(* collection of three top-level comments of one blog (the two later ones  *)
(* created at the same instant), two replies to the first, and a comment   *)
(* of another blog.                                                        *)

MaxThreadReqs == 2  \* requests handled in one run of the thread model

ThreadReqs == 1..MaxThreadReqs

RootLater == NewComment("foo", Hi, NoParent, AuthorA, EmailA, "u2", 2)
ReplyLater == NewComment("foo", Hi, IdToString(1), AuthorA, EmailA, "u1", 2)
RootLast == NewComment("foo", PaddedYo, NoParent, AuthorA, EmailA, "u1", 2)
RootBar == NewComment("bar", Hi, NoParent, AuthorA, EmailA, "u1", 2)

ThreadStore == <<Root, Reply, RootLater, ReplyLater, RootLast, RootBar>>

\* sort absent (""), newest, popular
ThreadGetInputs == [slug : {"foo"}, sort : {"", "newest", "popular"}]

ThreadLikeInputs ==
    [slug : {"foo"}, commentId : {IdToString(1), IdToString(3)},
     userId : {"u1"}]

InitThread ==
    /\ variant = "part_000"
    /\ blogs = <<NewBlog("foo"), NewBlog("bar")>>
    /\ comments = ThreadStore
    /\ now = 2
    /\ req = [r \in ThreadReqs |-> Idle]
    /\ Cached
    /\ NotServer

NextThread ==
    \/ \E r \in ThreadReqs, in \in ThreadGetInputs :
            GetReceive(r, in.slug, in.sort)
    \/ \E r \in ThreadReqs, in \in ThreadLikeInputs :
            CommentLikeReceive(r, in.slug, in.commentId, in.userId)
    \/ \E r \in ThreadReqs :
            \/ GetFindRoots(r)
            \/ CommentLikeFindOne(r)
            \/ CommentLikeUpdateOne(r)
            \/ CommentLikeRefetch(r)
    \/ \E r \in ThreadReqs, k \in CommentIds : GetFindReplies(r, k)

SpecThread == InitThread /\ [][NextThread]_vars

\* C20: the roots a GET request reads come by createdAt descending when
\* sort is newest or absent, and by likes descending, equal likes by
\* createdAt descending, when sort is popular; the replies it reads for a
\* root come by createdAt ascending; the answer keeps both orders.
C20_ThreadOrder ==
    [][\A r \in DOMAIN req :
         /\ ReadsRoots(r) =>
              \A i, j \in 1..Len(req'[r].roots) :
                i < j =>
                  LET a == comments[req'[r].roots[i]]
                      b == comments[req'[r].roots[j]]
                  IN IF req[r].sort = "popular"
                     THEN \/ a.likes > b.likes
                          \/ /\ a.likes = b.likes
                             /\ a.createdAt >= b.createdAt
                     ELSE a.createdAt >= b.createdAt
         /\ \A k \in CommentIds :
              ReadsReplies(r, k) =>
                \A i, j \in 1..Len(req'[r].replies[k]) :
                  i < j => comments[req'[r].replies[k][i]].createdAt
                              <= comments[req'[r].replies[k][j]].createdAt
         /\ ( req[r].kind = "get" /\ Answers(r) ) =>
              /\ [i \in 1..Len(req'[r].data.comments) |->
                        req'[r].data.comments[i]._id] = req'[r].roots
              /\ \A i \in 1..Len(req'[r].roots) :
                    req'[r].data.comments[i].replies =
                        req'[r].replies[req'[r].roots[i]]]_vars

\* C20 witness: a popular GET was answered with the oldest root first,
\* because a like had made it the most liked, then the two later roots,
\* and with the two replies of the first root, older first.
C20_Witness ==
    \E r \in DOMAIN req :
        /\ req[r].kind = "get" /\ req[r].pc = "done" /\ req[r].status = 200
        /\ req[r].sort = "popular"
        /\ Len(req[r].data.comments) = 3
        /\ req[r].data.comments[1]._id = 1
        /\ comments[1].likes > comments[3].likes
        /\ comments[1].createdAt < comments[3].createdAt
        /\ req[r].data.comments[1].replies = <<2, 4>>
        /\ comments[2].createdAt < comments[4].createdAt

------------------------------------------------------------------------------
(* GET /blogs/:slug/comments/count *)

\* a count that leaves out the parentId filter
CountDocumentsWithReplies(slug) ==
    Cardinality({k \in CommentIds : /\ comments[k].blogSlug = slug
                                    /\ ~comments[k].isDeleted})

\* countDocuments({blogSlug, parentId: null, isDeleted: {$ne: true}})
CountDocuments(slug) ==
    Cardinality({k \in CommentIds : /\ comments[k].blogSlug = slug
                                    /\ comments[k].parentId = NoParent
                                    /\ ~comments[k].isDeleted})

CountReceive(r, slug) ==
    /\ variant = "part_000"
    /\ CanStart(r)
    /\ req' = [req EXCEPT ![r] =
            [kind |-> "count", pc |-> "countDocuments", slug |-> slug,
             status |-> 0, data |-> NoData]]
    /\ UNCHANGED <<globals, variant, blogs, comments, now>>

\* countDocuments(...) and the answer
CountCountDocuments(r) ==
    /\ req[r].kind = "count"
    /\ req[r].pc = "countDocuments"
    /\ req' = [req EXCEPT ![r] =
            Respond(@, 200, [count |-> CountDocuments(req[r].slug)])]
    /\ UNCHANGED <<globals, variant, blogs, comments, now>>

------------------------------------------------------------------------------
(* The counting model: the comment routes with the count route, on a       *)
(* collection that holds a top-level comment, or that and a reply to it.   *)

MaxCountReqs == 2   \* requests handled in one run of the counting model

CountReqs == 1..MaxCountReqs

CountCreateInputs ==
    [slug : {"foo"}, content : {PaddedYo}, parentId : {NoParent},
     authorName : {AuthorA}, authorEmail : {EmailA}, header : {"u1", NoUser}]
    \cup [slug : {"foo", "bar"}, content : {PaddedYo},
          parentId : {IdToString(1)},
          authorName : {AuthorA}, authorEmail : {EmailA}, header : {"u2"}]
    \cup [slug : {"foo"}, content : {Blank, <<>>}, parentId : {NoParent},
          authorName : {AuthorA}, authorEmail : {EmailA}, header : {"u1"}]
    \cup [slug : {"foo"}, content : {PaddedYo}, parentId : {NoParent},
          authorName : {<<>>}, authorEmail : {EmailA}, header : {"u1"}]
    \cup [slug : {"foo"}, content : {PaddedYo}, parentId : {NoParent},
          authorName : {AuthorA}, authorEmail : {<<>>}, header : {"u1"}]

CountDeleteInputs ==
    [slug : {"foo"}, commentId : {IdToString(1)}, userIdentifier : Users]
    \cup [slug : {"foo"}, commentId : {IdToString(2)}, userIdentifier : {"u2"}]
    \cup [slug : {"foo"}, commentId : {IdToString(3)},
          userIdentifier : AnonTokens]

CountEditInputs ==
    [slug : {"foo"}, commentId : {IdToString(1)}, content : {PaddedYo, Blank},
     userIdentifier : Users]

CountLikeInputs ==
    [slug : {"foo"}, commentId : {IdToString(1)}, userId : {"u1"}]

InitCount ==
    /\ variant = "part_000"
    /\ blogs = <<NewBlog("foo")>>
    /\ comments \in {<<Root>>, <<Root, Reply>>}
    /\ now = 1
    /\ req = [r \in CountReqs |-> Idle]
    /\ Cached
    /\ NotServer

NextCount ==
    \/ \E r \in CountReqs, in \in CountCreateInputs :
            CreateReceive(r, in.slug, in.content, in.parentId, in.authorName,
                          in.authorEmail, in.header)
    \/ \E r \in CountReqs, in \in CountLikeInputs :
            CommentLikeReceive(r, in.slug, in.commentId, in.userId)
    \/ \E r \in CountReqs, in \in CountEditInputs :
            EditReceive(r, in.slug, in.commentId, in.content, in.userIdentifier)
    \/ \E r \in CountReqs, in \in CountDeleteInputs :
            DeleteReceive(r, in.slug, in.commentId, in.userIdentifier)
    \/ \E r \in CountReqs : GetReceive(r, "foo", "newest")
    \/ \E r \in CountReqs : CountReceive(r, "foo")
    \/ \E r \in CountReqs :
            \/ CreateFindParent(r)
            \/ CreateInsertOne(r)
            \/ CommentLikeFindOne(r)
            \/ CommentLikeUpdateOne(r)
            \/ CommentLikeRefetch(r)
            \/ EditFindOne(r)
            \/ EditUpdateOne(r)
            \/ EditRefetch(r)
            \/ DeleteFindOne(r)
            \/ DeleteUpdateOne(r)
            \/ GetFindRoots(r)
            \/ CountCountDocuments(r)
    \/ \E r \in CountReqs, k \in CommentIds : GetFindReplies(r, k)
    \/ Tick

SpecCount == InitCount /\ [][NextCount]_vars

------------------------------------------------------------------------------
(* Properties of the count route *)

\* the stored comments of the slug that are top-level and not deleted
LiveTopLevel(slug) ==
    {k \in CommentIds : /\ comments[k].blogSlug = slug
                        /\ ~IsReply(k)
                        /\ ~comments[k].isDeleted}

\* the step stores a reply, or soft-deletes one
TouchesReply ==
    \/ /\ Len(comments') = Len(comments) + 1
       /\ comments'[Len(comments')].parentId # NoParent
    \/ \E k \in CommentIds :
         /\ IsReply(k)
         /\ ~comments[k].isDeleted
         /\ comments'[k].isDeleted

\* C21: the count route answers 200 with the number of stored comments of
\* the slug that have parentId null and are not deleted; a step that stores
\* or soft-deletes a reply leaves that number as it is; and when a count
\* request and a GET /blogs/:slug/comments request for the slug are the
\* only requests and both are answered, the count field of the GET answer
\* is the count of the count answer.
C21_CountIsLiveTopLevel ==
    [][/\ \A r \in DOMAIN req :
            ( req[r].kind = "count" /\ Answers(r) ) =>
                /\ req'[r].status = 200
                /\ req'[r].data.count = Cardinality(LiveTopLevel(req[r].slug))
       /\ TouchesReply =>
            \A slug \in {"foo", "bar"} :
                Cardinality(LiveTopLevel(slug)') = Cardinality(LiveTopLevel(slug))
       /\ \A r, q \in DOMAIN req :
            ( /\ req'[r].kind = "count" /\ req'[r].pc = "done"
              /\ req'[q].kind = "get" /\ req'[q].pc = "done"
              /\ req'[q].slug = req'[r].slug
              /\ \A o \in DOMAIN req \ {r, q} : req'[o].pc = "idle" )
            => req'[q].data.count = req'[r].data.count]_vars

\* C21 witness: with a top-level comment and a reply stored, a reply was
\* soft-deleted and the count route then answered 1.
C21_Witness ==
    \E r, q \in DOMAIN req :
        /\ req[r].kind = "delete" /\ req[r].pc = "done" /\ req[r].status = 200
        /\ req[r].commentId = IdToString(2)
        /\ Len(comments) = 2 /\ IsReply(2) /\ comments[2].isDeleted
        /\ req[q].kind = "count" /\ req[q].pc = "done"
        /\ req[q].data.count = 1

------------------------------------------------------------------------------
(* GET /blogs/:slug/stats of src/unnamed/part_000 (src/index.js registers   *)
(* no GET route for this path)                                             *)

\* a read path that reports no views
GetStatsDataNoViews(blog) ==
    [likes |-> blog.likes, views |-> 0, likedBy |-> LikedByOrEmpty(blog)]

\* { likes: blog.likes || 0, views: blog.views || 0,
\*   likedBy: blog.likedBy || [] }; an absent counter is stored as 0
GetStatsData(blog) ==
    [likes |-> blog.likes, views |-> blog.views,
     likedBy |-> LikedByOrEmpty(blog)]

GetStatsReceive(r, slug) ==
    /\ variant = "part_000"
    /\ CanStart(r)
    /\ req' = [req EXCEPT ![r] =
            [kind |-> "getStats", pc |-> "findOne", slug |-> slug,
             status |-> 0, data |-> NoData]]
    /\ UNCHANGED <<globals, variant, blogs, comments, now>>

\* findOne({slug}) and the answer
GetStatsFindOne(r) ==
    /\ req[r].kind = "getStats"
    /\ req[r].pc = "findOne"
    /\ LET blog == FindBlog(req[r].slug) IN
       req' = [req EXCEPT ![r] =
            IF blog = NoDoc THEN Respond(@, 404, NoData)
            ELSE Respond(@, 200, GetStatsData(blog))]
    /\ UNCHANGED <<globals, variant, blogs, comments, now>>

------------------------------------------------------------------------------
(* The stats reading model: GET and POST stats requests, valid and         *)
(* refused, in both entry files, on a stored blog.                         *)

MaxReadReqs == 2    \* requests handled in one run of the stats reading model

ReadReqs == 1..MaxReadReqs

ReadStatsInputs ==
    [slug : {"foo", "bar"}, action : {"like", "unlike"},
     userIdentifier : {"u1", NoUser}]
    \cup [slug : {"foo", "bar"}, action : {"view", "", "share"},
          userIdentifier : {NoUser}]

InitRead ==
    /\ variant \in {"index", "part_000"}
    /\ blogs \in {<<NewBlog("foo")>>, <<LegacyBlog("foo")>>}
    /\ comments = <<>>
    /\ now = 1
    /\ req = [r \in ReadReqs |-> Idle]
    /\ Cached
    /\ NotServer

NextRead ==
    \/ \E r \in ReadReqs, in \in ReadStatsInputs :
            \/ IndexStatsReceive(r, in.slug, in.action, in.userIdentifier)
            \/ PartStatsReceive(r, in.slug, in.action, in.userIdentifier)
    \/ \E r \in ReadReqs, slug \in {"foo", "bar"} : GetStatsReceive(r, slug)
    \/ \E r \in ReadReqs :
            \/ IndexStatsFindOneAndUpdate(r)
            \/ PartStatsFindOne(r)
            \/ PartStatsUpdateOne(r)
            \/ PartStatsRefetch(r)
            \/ GetStatsFindOne(r)

SpecRead == InitRead /\ [][NextRead]_vars

------------------------------------------------------------------------------
(* Properties of refused and of reading stats requests *)

KnownActions == {"view", "like", "unlike"}

\* what is wrong with stats request rq: any of "action" (none given),
\* "unknown" (not view, like or unlike), "identity" (like / unlike without
\* userIdentifier), "slug" (no post has it)
Defects(rq) ==
    (IF rq.action = "" THEN {"action"} ELSE {})
    \cup (IF rq.action # "" /\ rq.action \notin KnownActions
          THEN {"unknown"} ELSE {})
    \cup (IF rq.action \in {"like", "unlike"} /\ rq.userIdentifier = NoUser
          THEN {"identity"} ELSE {})
    \cup (IF \A i \in 1..Len(blogs) : blogs[i].slug # rq.slug
          THEN {"slug"} ELSE {})

\* C22: no step of a POST stats request with a defect changes a post; the
\* request is answered 400 or 404, and when the defect is the only one,
\* 400 for no action, for an unknown action and for like / unlike without
\* userIdentifier, and 404 for an unknown slug.
C22_RefusedStatsChangeNothing ==
    [][\A r \in DOMAIN req :
         ( /\ req'[r] # req[r]
           /\ req'[r].kind = "stats"
           /\ Defects(req'[r]) # {} )
         => /\ blogs' = blogs
            /\ req'[r].pc = "done" =>
                 /\ req'[r].status \in {400, 404}
                 /\ Defects(req'[r]) \in {{"action"}, {"unknown"}, {"identity"}}
                        => req'[r].status = 400
                 /\ Defects(req'[r]) = {"slug"} => req'[r].status = 404]_vars

\* C22 witness: an unknown slug was answered 404 and a like without
\* userIdentifier 400, and the post is as it was stored.
C22_Witness ==
    \E r, q \in DOMAIN req :
        /\ StatsOf(r) /\ Defects(req[r]) = {"slug"}
        /\ req[r].pc = "done" /\ req[r].status = 404
        /\ StatsOf(q) /\ Defects(req[q]) = {"identity"}
        /\ req[q].pc = "done" /\ req[q].status = 400
        /\ blogs \in {<<NewBlog("foo")>>, <<LegacyBlog("foo")>>}

\* C25: GET /blogs/:slug/stats answers 404 for an unknown slug and otherwise
\* 200 with the likes, the views and the likedBy of the stored post, an
\* absent likedBy read as the empty list; no step of it changes a post.
C25_GetStatsReadsOnly ==
    [][\A r \in DOMAIN req :
         (req'[r] # req[r] /\ req'[r].kind = "getStats")
         => /\ blogs' = blogs
            /\ req'[r].pc = "done" =>
                 LET found == {i \in 1..Len(blogs) :
                                    blogs[i].slug = req'[r].slug}
                 IN  /\ found = {} => req'[r].status = 404
                     /\ \A i \in found :
                          /\ req'[r].status = 200
                          /\ req'[r].data.likes = blogs[i].likes
                          /\ req'[r].data.views = blogs[i].views
                          /\ req'[r].data.likedBy =
                                IF blogs[i].hasLikedBy THEN blogs[i].likedBy
                                ELSE <<>>]_vars

\* C25 witness: a GET of a post stored without likedBy was answered 200
\* with the empty list.
C25_Witness ==
    \E r \in DOMAIN req :
        /\ req[r].kind = "getStats" /\ req[r].pc = "done"
        /\ req[r].status = 200
        /\ req[r].data.likedBy = <<>>
        /\ \E i \in 1..Len(blogs) :
                blogs[i].slug = req[r].slug /\ ~blogs[i].hasLikedBy

------------------------------------------------------------------------------
(* Properties of stored comments *)

OnlySpaces(str) == \A i \in 1..Len(str) : str[i] = " "

\* C23: a create request whose content is empty once trimmed, or that names
\* no author or no author email, is answered 400 at once and stores
\* nothing; the content of every stored comment is non-empty and has no
\* space at either end.
C23_NoBlankComment ==
    [][/\ \A r \in DOMAIN req :
            ( /\ req'[r] # req[r]
              /\ req'[r].kind = "create"
              /\ \/ OnlySpaces(req'[r].content)
                 \/ req'[r].authorName = <<>>
                 \/ req'[r].authorEmail = <<>> )
            => /\ req'[r].pc = "done"
               /\ req'[r].status = 400
               /\ comments' = comments
       /\ \A k \in 1..Len(comments') :
            /\ comments'[k].content # <<>>
            /\ comments'[k].content[1] # " "
            /\ comments'[k].content[Len(comments'[k].content)] # " "]_vars

\* C23 witness: a create with blank content and one without an author were
\* answered 400, and the store holds what it held at the start.
C23_Witness ==
    \E r, q \in DOMAIN req :
        /\ req[r].kind = "create" /\ req[r].content = Blank
        /\ req[r].pc = "done" /\ req[r].status = 400
        /\ req[q].kind = "create" /\ req[q].authorName = <<>>
        /\ req[q].content # <<>>
        /\ req[q].pc = "done" /\ req[q].status = 400
        /\ comments \in {<<Root>>, <<Root, Reply>>}

\* C24: the comment a create request stores has 0 likes, an empty likedBy,
\* isEdited and isDeleted false, and as userIdentifier the x-user-id header
\* of the request or, without one, a generated token; the answer carries
\* the same identifier.  Edit and delete of a live comment go on to their
\* write exactly when the identifier they send is the stored one, and are
\* answered 403 otherwise.
C24_NewCommentFieldsAndOwner ==
    [][\A r \in DOMAIN req :
         /\ ( /\ req[r].kind = "create"
              /\ req[r].pc = "insertOne"
              /\ req'[r] # req[r] )
            => LET c == comments'[Len(comments')] IN
               /\ Len(comments') = Len(comments) + 1
               /\ SubSeq(comments', 1, Len(comments)) = comments
               /\ c.likes = 0
               /\ c.likedBy = <<>>
               /\ ~c.isEdited
               /\ ~c.isDeleted
               /\ c.userIdentifier \in
                    (IF req[r].header # NoUser THEN {req[r].header}
                     ELSE AnonTokens)
               /\ req'[r].status = 201
               /\ req'[r].data.comment.userIdentifier = c.userIdentifier
         /\ ( /\ req[r].kind \in {"edit", "delete"}
              /\ req[r].pc = "findOne"
              /\ req'[r] # req[r]
              /\ FindLiveComment(req[r].commentId, req[r].slug) # 0 )
            => LET c == comments[FindLiveComment(req[r].commentId,
                                                 req[r].slug)]
               IN IF c.userIdentifier = req[r].userIdentifier
                  THEN req'[r].pc = "updateOne"
                  ELSE req'[r].pc = "done" /\ req'[r].status = 403]_vars

\* C24 witness: a comment created without x-user-id was deleted by the
\* caller that sent the generated token.
C24_Witness ==
    \E r, q \in DOMAIN req :
        /\ req[r].kind = "create" /\ req[r].header = NoUser
        /\ req[r].pc = "done" /\ req[r].status = 201
        /\ req[q].kind = "delete" /\ req[q].pc = "done"
        /\ req[q].status = 200
        /\ req[q].userIdentifier = req[r].data.comment.userIdentifier
        /\ req[q].commentId = req[r].data._id

\* the fields of a comment document no route writes after creation
Fixed(c) == <<c.userIdentifier, c.blogSlug, c.parentId, c.author, c.createdAt>>

\* comment documents c and d differ in the fields of F at most
SameBut(c, d, F) ==
    \A f \in (DOMAIN c \cup DOMAIN d) \ F :
        f \in DOMAIN c /\ f \in DOMAIN d /\ c[f] = d[f]

\* C28: no step removes a stored comment or changes its userIdentifier,
\* blogSlug, parentId, author or createdAt; the write of an edit changes
\* content, isEdited and updatedAt of its comment at most, the write of a
\* delete isDeleted, content and updatedAt, the write of a like likes and
\* likedBy, and each leaves every other comment as it is.
C28_WritesTouchOwnFieldsOnly ==
    [][/\ Len(comments') >= Len(comments)
       /\ \A k \in 1..Len(comments) : Fixed(comments'[k]) = Fixed(comments[k])
       /\ \A r \in DOMAIN req :
            ( /\ req[r].kind \in {"edit", "delete", "commentLike"}
              /\ req[r].pc = "updateOne"
              /\ req'[r] # req[r] )
            => /\ Len(comments') = Len(comments)
               /\ \A k \in 1..Len(comments) :
                    IF k = ObjectId(req[r].commentId)
                    THEN SameBut(comments[k], comments'[k],
                            CASE req[r].kind = "edit" ->
                                    {"content", "isEdited", "updatedAt"}
                              [] req[r].kind = "delete" ->
                                    {"isDeleted", "content", "updatedAt"}
                              [] req[r].kind = "commentLike" ->
                                    {"likes", "likedBy"})
                    ELSE comments'[k] = comments[k]]_vars

\* C28 witness: a liked comment was edited and kept its like.
C28_Witness ==
    \E r, q \in DOMAIN req :
        /\ req[r].kind = "commentLike" /\ req[r].pc = "done"
        /\ req[q].kind = "edit" /\ req[q].pc = "done" /\ req[q].status = 200
        /\ req[q].commentId = req[r].commentId
        /\ LET c == comments[ObjectId(req[q].commentId)] IN
              c.isEdited /\ c.likes = 1 /\ c.likedBy = <<req[r].userId>>

------------------------------------------------------------------------------
(* connectToDatabase() and the SIGINT / SIGTERM handlers (the same code in *)
(* src/index.js and src/unnamed/part_000).  A call is a task req[r] of     *)
(* kind "connect"; a signal handler is a task of kind "signal".            *)

\* process.exit(0) has run
Exited == \E r \in DOMAIN req : req[r].kind = "signal" /\ req[r].pc = "done"

\* cachedClient && cachedDb
CacheHit == cachedClient # 0 /\ cachedDb # 0

NoPair == [client |-> 0, database |-> 0]

\* the call up to its first await: the cached pair, or new MongoClient(uri)
\* and client.connect() pending
ConnectCall(r) ==
    /\ ~Exited
    /\ CanStart(r)
    /\ IF CacheHit
       THEN /\ req' = [req EXCEPT ![r] =
                    [kind |-> "connect", pc |-> "done", client |-> 0,
                     threw |-> FALSE,
                     returned |-> [client |-> cachedClient,
                                   database |-> cachedDb]]]
            /\ UNCHANGED clients
       ELSE /\ clients' = Append(clients, "connecting")
            /\ req' = [req EXCEPT ![r] =
                    [kind |-> "connect", pc |-> "connect",
                     client |-> Len(clients) + 1,
                     threw |-> FALSE, returned |-> NoPair]]
    /\ UNCHANGED <<variant, blogs, comments, now, cachedClient, cachedDb,
                   isConnected, clientsCollection, connectionError>>

\* a failed connect that caches its client all the same
ConnectRejectCaches(r) ==
    /\ ~Exited
    /\ req[r].kind = "connect"
    /\ req[r].pc = "connect"
    /\ clients' = [clients EXCEPT ![req[r].client] = "failed"]
    /\ cachedClient' = req[r].client
    /\ req' = [req EXCEPT ![r].pc = "done", ![r].threw = TRUE]
    /\ UNCHANGED <<variant, blogs, comments, now, cachedDb,
                   isConnected, clientsCollection, connectionError>>

\* client.connect() rejects: the catch block logs and rethrows
ConnectReject(r) ==
    /\ ~Exited
    /\ req[r].kind = "connect"
    /\ req[r].pc = "connect"
    /\ clients' = [clients EXCEPT ![req[r].client] = "failed"]
    /\ req' = [req EXCEPT ![r].pc = "done", ![r].threw = TRUE]
    /\ UNCHANGED <<variant, blogs, comments, now, cachedClient, cachedDb,
                   isConnected, clientsCollection, connectionError>>

\* client.connect() resolves: client.db(), the two assignments, the return
ConnectResolve(r) ==
    /\ ~Exited
    /\ req[r].kind = "connect"
    /\ req[r].pc = "connect"
    /\ clients' = [clients EXCEPT ![req[r].client] = "connected"]
    /\ cachedClient' = req[r].client
    /\ cachedDb' = req[r].client
    /\ req' = [req EXCEPT ![r].pc = "done",
                          ![r].returned = [client |-> req[r].client,
                                           database |-> req[r].client]]
    /\ UNCHANGED <<variant, blogs, comments, now,
                   isConnected, clientsCollection, connectionError>>

\* SIGINT / SIGTERM arrives: cachedClient.close() pending, or exit at once
SignalReceive(r) ==
    /\ ~Exited
    /\ CanStart(r)
    /\ req' = [req EXCEPT ![r] =
            IF cachedClient # 0
            THEN [kind |-> "signal", pc |-> "close", client |-> cachedClient]
            ELSE [kind |-> "signal", pc |-> "done", client |-> 0]]
    /\ UNCHANGED <<globals, variant, blogs, comments, now>>

\* close() resolves, then process.exit(0)
SignalClosed(r) ==
    /\ ~Exited
    /\ req[r].kind = "signal"
    /\ req[r].pc = "close"
    /\ clients' = [clients EXCEPT ![req[r].client] = "closed"]
    /\ req' = [req EXCEPT ![r].pc = "done"]
    /\ UNCHANGED <<variant, blogs, comments, now, cachedClient, cachedDb,
                   isConnected, clientsCollection, connectionError>>

------------------------------------------------------------------------------
(* The connection model: a cold process, concurrent calls of               *)
(* connectToDatabase(), and the signals.                                   *)

MaxConnectReqs == 3     \* calls and signals handled in one run

ConnectReqs == 1..MaxConnectReqs

InitConnect ==
    /\ variant \in {"index", "part_000"}
    /\ blogs = <<>>
    /\ comments = <<>>
    /\ now = 1
    /\ req = [r \in ConnectReqs |-> Idle]
    /\ cachedClient = 0
    /\ cachedDb = 0
    /\ clients = <<>>
    /\ NotServer

NextConnect ==
    \E r \in ConnectReqs :
        \/ ConnectCall(r)
        \/ ConnectResolve(r)
        \/ ConnectReject(r)
        \/ SignalReceive(r)
        \/ SignalClosed(r)

SpecConnect == InitConnect /\ [][NextConnect]_vars

------------------------------------------------------------------------------
(* Properties of the connection cache *)

\* the clients whose connect() succeeded
Connected == {c \in 1..Len(clients) : clients[c] \in {"connected", "closed"}}

\* C26: whatever the interleaving of the calls of connectToDatabase(), at
\* most one MongoClient is ever connected, and once the process has exited
\* on a signal no client is left connected and not closed.
C26_OneClientAndClosedAtExit ==
    /\ Cardinality(Connected) <= 1
    /\ Exited => \A c \in 1..Len(clients) : clients[c] # "connected"

\* C27: cachedClient and cachedDb are null together or name the same
\* client.  A connect() that fails leaves both as they were and its call
\* throws; a connect() that succeeds sets both to its client and its call
\* returns that pair.  A call made while the cache is empty constructs a
\* client and connects; a call made while it is set returns the cached
\* pair and constructs nothing.
C27_CacheSetOnSuccessOnly ==
    [][/\ cachedClient' = cachedDb'
       /\ \A r \in DOMAIN req :
            /\ ( /\ req[r].kind = "connect" /\ req[r].pc = "connect"
                 /\ req'[r] # req[r] )
               => /\ req'[r].pc = "done"
                  /\ IF clients'[req[r].client] = "failed"
                     THEN /\ req'[r].threw
                          /\ req'[r].returned = NoPair
                          /\ cachedClient' = cachedClient
                          /\ cachedDb' = cachedDb
                     ELSE /\ ~req'[r].threw
                          /\ clients'[req[r].client] = "connected"
                          /\ cachedClient' = req[r].client
                          /\ req'[r].returned =
                                [client |-> cachedClient',
                                 database |-> cachedDb']
            /\ ( /\ req[r].pc = "idle"
                 /\ req'[r].kind = "connect" )
               => IF cachedClient = 0
                  THEN /\ req'[r].pc = "connect"
                       /\ Len(clients') = Len(clients) + 1
                       /\ req'[r].client = Len(clients')
                       /\ clients'[req'[r].client] = "connecting"
                  ELSE /\ req'[r].pc = "done"
                       /\ ~req'[r].threw
                       /\ req'[r].returned =
                            [client |-> cachedClient, database |-> cachedDb]
                       /\ clients' = clients
                       /\ clients[cachedClient] # "failed"]_vars

\* C27 witness: a first call threw, a second connected a new client, and a
\* third was given the cached pair without a client of its own.
C27_Witness ==
    \E r, q, p \in DOMAIN req :
        /\ req[r].kind = "connect" /\ req[r].pc = "done" /\ req[r].threw
        /\ req[q].kind = "connect" /\ req[q].pc = "done"
        /\ req[q].client = 2 /\ req[q].returned.client = 2
        /\ req[p].kind = "connect" /\ req[p].pc = "done"
        /\ req[p].client = 0
        /\ req[p].returned = [client |-> 2, database |-> 2]
        /\ cachedClient = 2 /\ cachedDb = 2
        /\ clients = <<"failed", "connected">>

------------------------------------------------------------------------------
(* src/server.js: one MongoClient built when the module loads, run()       *)
(* called once, and three routes that test isConnected.  The task of run() *)
(* is req[0]; requests are req[1], req[2], ...                             *)

\* a guard that looks at the collection handle alone
NotReadyByHandle == clientsCollection = NoCollection

\* !isConnected || !clientsCollection
NotReady == ~isConnected \/ clientsCollection = NoCollection

\* await client.connect() resolves: database, clientsCollection,
\* isConnected = true, and countDocuments() pending
RunConnectResolve ==
    /\ req[0].pc = "connect"
    /\ clients' = [clients EXCEPT ![1] = "connected"]
    /\ clientsCollection' = "clients_info"
    /\ isConnected' = TRUE
    /\ req' = [req EXCEPT ![0].pc = "countDocuments"]
    /\ UNCHANGED <<variant, blogs, comments, now, cachedClient, cachedDb,
                   connectionError>>

\* await client.connect() rejects: the catch block
RunConnectReject ==
    /\ req[0].pc = "connect"
    /\ clients' = [clients EXCEPT ![1] = "failed"]
    /\ connectionError' = "connect failed"
    /\ isConnected' = FALSE
    /\ req' = [req EXCEPT ![0].pc = "done"]
    /\ UNCHANGED <<variant, blogs, comments, now, cachedClient, cachedDb,
                   clientsCollection>>

\* await clientsCollection.countDocuments() resolves: run() returns
RunCountResolve ==
    /\ req[0].pc = "countDocuments"
    /\ req' = [req EXCEPT ![0].pc = "done"]
    /\ UNCHANGED <<globals, variant, blogs, comments, now>>

\* await clientsCollection.countDocuments() rejects: the catch block
RunCountReject ==
    /\ req[0].pc = "countDocuments"
    /\ connectionError' = "count failed"
    /\ isConnected' = FALSE
    /\ req' = [req EXCEPT ![0].pc = "done"]
    /\ UNCHANGED <<variant, blogs, comments, now, cachedClient, cachedDb,
                   clients, clientsCollection>>

\* the newBlog of POST /postblogs in src/server.js
ServerNewBlog(body) ==
    [title |-> body.title,
     slug |-> body.slug,
     excerpt |-> body.excerpt,
     coverImage |-> body.coverImage,
     date |-> body.date,
     content |-> body.content,
     author |-> IF body.author = "" THEN "Unknown" ELSE body.author,
     authorImage |-> ""]

\* GET /blogs up to find()
ServerGetBlogsReceive(r) ==
    /\ variant = "server"
    /\ CanStart(r)
    /\ LET rq == [kind |-> "serverGetBlogs", pc |-> "start",
                  status |-> 0, data |-> NoData]
       IN req' = [req EXCEPT ![r] =
            IF NotReady THEN Respond(rq, 503, NoData)
            ELSE [rq EXCEPT !.pc = "find"]]
    /\ UNCHANGED <<globals, variant, blogs, comments, now>>

\* find().toArray() and the answer
ServerGetBlogsFind(r) ==
    /\ req[r].kind = "serverGetBlogs"
    /\ req[r].pc = "find"
    /\ req' = [req EXCEPT ![r] =
            Respond(@, 200, [blogs |-> blogs, count |-> Len(blogs)])]
    /\ UNCHANGED <<globals, variant, blogs, comments, now>>

\* GET /blogs/:slug up to findOne({slug})
ServerGetBlogReceive(r, slug) ==
    /\ variant = "server"
    /\ CanStart(r)
    /\ LET rq == [kind |-> "serverGetBlog", pc |-> "start", slug |-> slug,
                  status |-> 0, data |-> NoData]
       IN req' = [req EXCEPT ![r] =
            IF NotReady THEN Respond(rq, 503, NoData)
            ELSE [rq EXCEPT !.pc = "findOne"]]
    /\ UNCHANGED <<globals, variant, blogs, comments, now>>

\* findOne({slug}) and the answer
ServerGetBlogFindOne(r) ==
    /\ req[r].kind = "serverGetBlog"
    /\ req[r].pc = "findOne"
    /\ LET i == FindBlogIndex(req[r].slug) IN
       req' = [req EXCEPT ![r] =
            IF i = 0 THEN Respond(@, 404, NoData)
            ELSE Respond(@, 200, [blog |-> blogs[i]])]
    /\ UNCHANGED <<globals, variant, blogs, comments, now>>

\* POST /postblogs up to insertOne(newBlog)
ServerPostBlogsReceive(r, body) ==
    /\ variant = "server"
    /\ CanStart(r)
    /\ LET rq == [kind |-> "serverPostBlogs", pc |-> "start", body |-> body,
                  status |-> 0, data |-> NoData]
       IN req' = [req EXCEPT ![r] =
            IF NotReady THEN Respond(rq, 503, NoData)
            ELSE IF MissingRequired(body) THEN Respond(rq, 400, NoData)
            ELSE [rq EXCEPT !.pc = "insertOne"]]
    /\ UNCHANGED <<globals, variant, blogs, comments, now>>

\* insertOne(newBlog) and the 201 answer
ServerPostBlogsInsertOne(r) ==
    /\ req[r].kind = "serverPostBlogs"
    /\ req[r].pc = "insertOne"
    /\ blogs' = Append(blogs, ServerNewBlog(req[r].body))
    /\ req' = [req EXCEPT ![r] =
            Respond(@, 201, [blog |-> ServerNewBlog(req[r].body)])]
    /\ UNCHANGED <<globals, variant, comments, now>>

------------------------------------------------------------------------------
(* The server.js model *)

MaxServerReqs == 2      \* requests handled in one run of the server.js model

ServerReqs == 1..MaxServerReqs

ServerPostInputs == {FooBody, [FooBody EXCEPT !.title = ""]}

InitServer ==
    /\ variant = "server"
    /\ blogs \in {<<>>, <<ServerNewBlog(FooBody)>>}
    /\ comments = <<>>
    /\ now = 1
    /\ req = [r \in {0} \cup ServerReqs |->
                IF r = 0 THEN [kind |-> "run", pc |-> "connect"] ELSE Idle]
    /\ cachedClient = 0
    /\ cachedDb = 0
    /\ clients = <<"connecting">>
    /\ NotServer

NextServer ==
    \/ RunConnectResolve
    \/ RunConnectReject
    \/ RunCountResolve
    \/ RunCountReject
    \/ \E r \in ServerReqs :
            \/ ServerGetBlogsReceive(r)
            \/ ServerGetBlogsFind(r)
            \/ \E slug \in {"foo", "bar"} : ServerGetBlogReceive(r, slug)
            \/ ServerGetBlogFindOne(r)
            \/ \E body \in ServerPostInputs : ServerPostBlogsReceive(r, body)
            \/ ServerPostBlogsInsertOne(r)

SpecServer == InitServer /\ [][NextServer]_vars

ServerKinds == {"serverGetBlogs", "serverGetBlog", "serverPostBlogs"}

\* C30: isConnected is true only while clientsCollection is assigned; a
\* request of GET /blogs, GET /blogs/:slug or POST /postblogs that arrives
\* while isConnected is false is answered 503 at once and the store is as
\* it was; once the startup attempt has failed (connectionError is set)
\* isConnected is false and stays false, so every request that arrives
\* later is answered 503.
C30_NotConnectedMeans503 ==
    [][/\ isConnected' => clientsCollection' # NoCollection
       /\ connectionError' # NoError => ~isConnected'
       /\ connectionError # NoError
            => ~isConnected' /\ connectionError' # NoError
       /\ \A r \in DOMAIN req :
            ( /\ req[r].pc = "idle"
              /\ req'[r].kind \in ServerKinds
              /\ (~isConnected \/ connectionError # NoError) )
            => /\ req'[r].pc = "done"
               /\ req'[r].status = 503
               /\ blogs' = blogs]_vars

\* C30 witness: countDocuments() failed after a request was served, and the
\* request that arrived after the failure was answered 503.
C30_Witness ==
    /\ connectionError = "count failed"
    /\ clientsCollection # NoCollection
    /\ \E r, q \in DOMAIN req :
        /\ r < q
        /\ req[r].kind \in ServerKinds /\ req[r].pc = "done"
        /\ req[r].status = 201
        /\ req[q].kind \in ServerKinds /\ req[q].pc = "done"
        /\ req[q].status = 503

====
